---- MODULE Spec2Model ----
(***************************************************************************)
(* Model of the translate-pdfs service: the job table, the RQ work queue,  *)
(* the translation worker, the job recovery service, the cancel and retry  *)
(* endpoints, the checkpointed markdown translation, the chunking and      *)
(* packing of texts and the rate limiter.                                  *)
(***************************************************************************)
EXTENDS Integers, Sequences, FiniteSets, TLC

(***************************************************************************)
(* Bounds of the model.                                                    *)
(***************************************************************************)
\* number of job ids the API may hand out
NumJobs == 2
\* the clock (datetime.utcnow, func.now) runs over 0..MaxClock
MaxClock == 1

JobIds == 1..NumJobs

(***************************************************************************)
(* src/models/job.py: the enumerations.  A Python Enum is a mapping from   *)
(* member names to values; reading a member that is not defined raises     *)
(* AttributeError.                                                         *)
(***************************************************************************)
JobStatus ==
  [PENDING |-> "pending", PROCESSING |-> "processing", COMPLETED |-> "completed",
   FAILED |-> "failed", CANCELLED |-> "cancelled"]

ProcessingStage ==
  [UPLOADED |-> "uploaded", OCR_PROCESSING |-> "ocr_processing",
   DOCLING_CONVERSION |-> "docling_conversion", TRANSLATION |-> "translation",
   PDF_GENERATION |-> "pdf_generation", COMPLETED |-> "completed"]

DocumentType == {"text_pdf", "text_image_pdf", "scan"}

\* hasattr(ProcessingStage, name)
HasStage(name) == name \in DOMAIN ProcessingStage

\* the statuses the cancel endpoint and the retention sweep treat as final
TerminalStatuses == {JobStatus.COMPLETED, JobStatus.FAILED, JobStatus.CANCELLED}
\* the statuses recover_orphaned_jobs selects
ActiveStatuses == {JobStatus.PENDING, JobStatus.PROCESSING}

\* the states of an RQ task (rq.job.JobStatus); "none" is RQJob.fetch raising
\* NoSuchJobError, which _get_rq_job turns into None
RqStates == {"none", "queued", "started", "finished", "failed", "canceled"}

\* values of Job.error_message ("None" is Python's None)
ErrNone == "None"
ErrRestart == "Job failed during system restart"
ErrRequeue == "Failed to re-queue: AttributeError"
ErrProcessing == "Processing failed"

VARIABLES
  jobs,      \* the jobs table: job id -> row, for the ids that have a row
  nextId,    \* the next fresh job id (uuid4)
  rq,        \* the RQ task of each job id
  enq,       \* how many tasks have been enqueued for each job id
  uploads,   \* job ids whose upload directory exists
  outputs,   \* job ids whose output directory exists
  work,      \* job ids whose working directory output_dir/work exists
  files,     \* the files under each job id's output directory
  clock,     \* the wall clock
  wjob,      \* the job the worker is processing (0: idle)
  wpc,       \* the worker's position in the pipeline of process_pdf
  rpc,       \* recover_orphaned_jobs: "idle" or "loop"
  rlist,     \* the jobs of processing_jobs not yet visited
  rseen,     \* what the queue reported for each job visited in this run
  rnew,      \* how many tasks the run has enqueued for each job id
  rerrors    \* the job ids for which the run logged an error

\* the locals of a run of recover_orphaned_jobs
recVars == <<rpc, rlist, rseen, rnew, rerrors>>

jobVars == <<jobs, nextId, rq, enq, uploads, outputs, work, files, clock, wjob,
             wpc, recVars>>

VARIABLES
  md_text,   \* the markdown document being translated
  ckfile,    \* out_dir/.translate_checkpoint.json: [exists, data]
  tpc,       \* translate_markdown_document: "idle", "loop", "open", "write",
             \* "done" (returned) or "raised" (left by an exception)
  ti,        \* the loop index i
  start_i,   \* the block the run started at
  out_parts, \* the output blocks so far
  tkey,      \* the key argument ("None": no key or no out_dir)
  flush_every, \* the flush_every argument
  checkpoint,  \* the local dict checkpoint
  sent,      \* the texts this run has passed to the translation engine
  tfinal,    \* whether the save in progress is the final one
  tresult,   \* the returned document
  fprev      \* the contents of the checkpoint file when the save in progress began

trVars == <<md_text, ckfile, tpc, ti, start_i, out_parts, tkey, flush_every,
            checkpoint, sent, tfinal, tresult, fprev>>

VARIABLES
  ptext,     \* the text given to protect_tokens
  ppc,       \* "input", "protected" (protect_tokens returned) or "restored"
  masked,    \* the text protect_tokens returned
  stash,     \* the stash protect_tokens returned
  restored,  \* what restore_tokens(masked, stash) returned
  ctext,     \* the text given to chunk_by_tokens and translate_texts_token_safe
  max_input_tokens,      \* settings.max_input_tokens
  max_tokens_per_batch,  \* settings.max_tokens_per_batch
  cpc,       \* "input", "chunked" (chunk_by_tokens returned) or "translated"
  chunks,    \* what chunk_by_tokens(ctext, max_input_tokens) returned
  results    \* what translate_texts_token_safe([ctext]) returned

VARIABLES
  pack_pieces, \* the list of chunks given to pack_by_token_budget
  bpc,       \* "input" or "packed" (pack_by_token_budget returned)
  packed     \* what pack_by_token_budget(pack_pieces, max_tokens_per_batch) returned

\* the call of pack_by_token_budget
packVars == <<pack_pieces, bpc, packed>>

VARIABLES
  resp       \* the response to the last cancel or retry request:
             \* [op, id, code], or NoResponse before the first

\* what the client of the API has received
apiVars == <<resp>>

VARIABLES
  requests,        \* RateLimiter.requests: identifier -> times of allowed calls
  max_requests,    \* RateLimiter.max_requests
  window_seconds,  \* RateLimiter.window_seconds
  rl_time,         \* time.time()
  calls            \* the calls of is_allowed so far: [identifier, time, allowed]

\* the rate limiter and the log of its calls
rateVars == <<requests, max_requests, window_seconds, rl_time, calls>>

\* the calls of the text functions of translation_service.py, of the API
\* and of the rate limiter, with what they returned
fnVars == <<ptext, ppc, masked, stash, restored, ctext, max_input_tokens,
            max_tokens_per_batch, cpc, chunks, results, packVars, apiVars,
            rateVars>>

(***************************************************************************)
(* The jobs table (SQLAlchemy model Job).                                  *)
(***************************************************************************)
\* Job(id, filename, document_type, status=PENDING) with the column defaults;
\* output_files is the set of the paths of the JSON list (None: no path)
NewJob(dt, now) ==
  [document_type |-> dt, status |-> JobStatus.PENDING,
   stage |-> ProcessingStage.UPLOADED, progress |-> 0,
   error_message |-> ErrNone, output_files |-> {}, updated_at |-> now]

\* an UPDATE of the columns in `cols` (a record) of job j, committed at `now`;
\* updated_at has onupdate=func.now().  An UPDATE of a row that no longer
\* exists changes nothing.
Update(tbl, j, cols, now) ==
  IF j \notin DOMAIN tbl THEN tbl
  ELSE LET old == tbl[j]
           new == [c \in DOMAIN old |->
                     IF c \in DOMAIN cols THEN cols[c] ELSE old[c]]
       IN  IF new = old THEN tbl
           ELSE [tbl EXCEPT ![j] = [new EXCEPT !.updated_at = now]]

\* db.delete(job)
Delete(tbl, j) == [k \in DOMAIN tbl \ {j} |-> tbl[k]]

\* the ids of `S` in ascending order (the order of a query result)
RECURSIVE SetToSeq(_)
SetToSeq(S) ==
  IF S = {} THEN <<>>
  ELSE LET m == CHOOSE x \in S : \A y \in S : x <= y
       IN  <<m>> \o SetToSeq(S \ {m})

(***************************************************************************)
(* src/services/job_service.py: the queue operations.                      *)
(***************************************************************************)
\* JobService.queue_job: queue.enqueue(process_translation_job, job_id=id)
\* creates the RQ task of that id in state queued.  q is [rq, enq].
queue_job(q, j) ==
  [rq |-> [q.rq EXCEPT ![j] = "queued"], enq |-> [q.enq EXCEPT ![j] = @ + 1]]

\* JobService.cancel_job: RQJob.fetch(id).cancel(); a task that does not exist
\* makes fetch raise, which is caught (the method returns False).
rq_cancel(q, j) == IF q[j] = "none" THEN q ELSE [q EXCEPT ![j] = "canceled"]

(***************************************************************************)
(* src/workers/translation_worker.py, src/services/document_processor.py:  *)
(* one worker process runs process_translation_job for one task at a time. *)
(***************************************************************************)
\* a progress message is the sequence of its words
Contains(desc, w) == \E i \in 1..Len(desc) : desc[i] = w

\* str.lower() on the words of the progress messages
Lower(w) ==
  CASE w = "Starting" -> "starting"
    [] w = "OCR" -> "ocr"
    [] w = "Skipping" -> "skipping"
    [] w = "PDF" -> "pdf"
    [] w = "Converting" -> "converting"
    [] w = "Markdown" -> "markdown"
    [] w = "Translating" -> "translating"
    [] w = "Translation" -> "translation"
    [] w = "Copying" -> "copying"
    [] w = "Generating" -> "generating"
    [] w = "Processing" -> "processing"
    [] OTHER -> w

\* update_progress: the stage a stage_description maps to ("keep": no branch
\* matches and job.stage is not assigned)
StageOf(desc) ==
  IF Contains(desc, "OCR") THEN ProcessingStage.OCR_PROCESSING
  ELSE IF Contains(desc, "Markdown") \/ Contains(desc, "Converting")
    THEN ProcessingStage.DOCLING_CONVERSION
  ELSE IF Contains(desc, "Translating") \/ Contains(desc, "Translation")
    THEN ProcessingStage.TRANSLATION
  ELSE IF Contains(desc, "PDF") THEN ProcessingStage.PDF_GENERATION
  ELSE IF \E i \in 1..Len(desc) : Lower(desc[i]) = "completed"
    THEN ProcessingStage.COMPLETED
  ELSE "keep"

\* update_progress(progress, stage_description): the columns it writes
update_progress(progress, desc) ==
  IF StageOf(desc) = "keep" THEN [progress |-> progress]
  ELSE [progress |-> progress, stage |-> StageOf(desc)]

Cb(p, desc) == [kind |-> "cb", progress |-> p, desc |-> desc]
Tool(name) == [kind |-> "tool", name |-> name]
\* an external stage with the path it is given: "input_path" (the upload) or
\* "ocr_output" (work_dir/<stem>_ocred.pdf, what _run_ocr returns)
ToolOn(name, path) == [kind |-> "tool", name |-> name, path |-> path]

\* translate_markdown_document reports ((i + 1) / total_parts) * 100 after
\* block i of total_parts (percentages are whole numbers in the model)
block_progress(i, total_parts) == ((i + 1) * 100) \div total_parts

\* a callback that passes the translation's own percentage on as the job's
translation_progress_unscaled(progress) == progress

\* translation_progress: the translation's percentage is mapped to the
\* job's, total_progress = 55 + (progress * 0.35)
translation_progress(progress) == 55 + (progress * 35) \div 100

\* a pipeline that runs OCR whatever the document type
process_pdf_always_ocr(dt) ==
  <<Cb(10, <<"Starting", "OCR", "processing">>),
    ToolOn("ocr", "input_path"), Cb(30, <<"OCR", "processing", "completed">>),
    Cb(35, <<"Converting", "to", "Markdown">>),
    ToolOn("docling", "ocr_output"),
    Cb(50, <<"Markdown", "conversion", "completed">>),
    Cb(55, <<"Starting", "translation">>),
    Tool("translate"),
    Cb(55 + (100 * 35) \div 100, <<"Translating", "100.0%">>),
    Cb(90, <<"Translation", "completed">>),
    Cb(92, <<"Copying", "images">>),
    Cb(95, <<"Generating", "PDF">>),
    Tool("pandoc"),
    Cb(100, <<"Processing", "completed">>)>>

\* DocumentProcessor.process_pdf: its progress callbacks and external stages
\* in program order for a document type.  The markdown of the model is one
\* block, so the translation stage reports once, after block 0 of 1.
process_pdf(dt) ==
  <<Cb(10, <<"Starting", "OCR", "processing">>)>>
  \o (IF dt \in {"text_image_pdf", "scan"}
        THEN <<ToolOn("ocr", "input_path"),
               Cb(30, <<"OCR", "processing", "completed">>)>>
        ELSE <<Cb(30, <<"Skipping", "OCR", "text", "PDF">>)>>)
  \o <<Cb(35, <<"Converting", "to", "Markdown">>),
       ToolOn("docling", IF dt \in {"text_image_pdf", "scan"}
                           THEN "ocr_output" ELSE "input_path"),
       Cb(50, <<"Markdown", "conversion", "completed">>),
       Cb(55, <<"Starting", "translation">>),
       Tool("translate"),
       Cb(translation_progress(block_progress(0, 1)), <<"Translating", "100.0%">>),
       Cb(90, <<"Translation", "completed">>),
       Cb(92, <<"Copying", "images">>),
       Cb(95, <<"Generating", "PDF">>),
       Tool("pandoc"),
       Cb(100, <<"Processing", "completed">>)>>

\* the files of a job under its output directory output_dir/<job id>: what
\* _run_ocr, _run_docling, the translation and _generate_pdf write
OcredPdf == "work/doc_ocred.pdf"
DoclingMd == "work/docling_output/doc.md"
CheckpointJson == "work/.translate_checkpoint.json"
TranslatedMd == "work/doc_fr.md"
FinalPdf == "doc_fr.pdf"

\* the paths under work_dir = output_dir / "work"
WorkFiles == {OcredPdf, DoclingMd, CheckpointJson, TranslatedMd}
\* the paths that match *.md
MarkdownFiles == {DoclingMd, TranslatedMd}

\* the files an external stage leaves when it succeeds
stage_output(name) ==
  CASE name = "ocr" -> {OcredPdf}
    [] name = "docling" -> {DoclingMd}
    [] name = "translate" -> {CheckpointJson, TranslatedMd}
    [] name = "pandoc" -> {FinalPdf}

\* "Collect output files": the final PDF if it exists and every file under
\* output_dir that matches **/*.md or **/*.html (no stage of the model
\* writes HTML)
collect_output_files(present) ==
  (present \cap {FinalPdf}) \cup (present \cap MarkdownFiles)

\* the RQ worker takes a queued task; process_translation_job loads the row
\* and marks it processing.  A missing row raises, is caught by the generic
\* handler, and the function returns normally (the task ends finished).
WorkerStart(j) ==
  /\ wjob = 0
  /\ rq[j] = "queued"
  /\ IF j \in DOMAIN jobs
       THEN /\ jobs' = Update(jobs, j,
                  [status |-> JobStatus.PROCESSING,
                   stage |-> ProcessingStage.UPLOADED, progress |-> 0], clock)
            /\ rq' = [rq EXCEPT ![j] = "started"]
            /\ outputs' = outputs \cup {j}
            /\ work' = work \cup {j}
            /\ wjob' = j
            /\ wpc' = 1
       ELSE /\ rq' = [rq EXCEPT ![j] = "finished"]
            /\ UNCHANGED <<jobs, outputs, work, wjob, wpc>>
  /\ UNCHANGED <<nextId, enq, uploads, files, clock, recVars, trVars, fnVars>>

\* a handler that marks the job failed without recording the error
WorkerFailNoMessage(j) ==
  /\ jobs' = Update(jobs, j, [status |-> JobStatus.FAILED], clock)
  /\ rq' = [rq EXCEPT ![j] = "finished"]
  /\ wjob' = 0
  /\ wpc' = 0

\* the except DocumentProcessingError handler: the job is marked failed and
\* the function returns a dict, so RQ records the task as finished
WorkerFail(j) ==
  /\ jobs' = Update(jobs, j,
        [status |-> JobStatus.FAILED, error_message |-> ErrProcessing], clock)
  /\ rq' = [rq EXCEPT ![j] = "finished"]
  /\ wjob' = 0
  /\ wpc' = 0

\* one step of process_pdf: a progress callback, or an external stage that
\* succeeds or fails
WorkerStep ==
  /\ wjob # 0
  /\ LET dt == IF wjob \in DOMAIN jobs THEN jobs[wjob].document_type ELSE "text_pdf"
         steps == process_pdf(dt)
     IN  /\ wpc <= Len(steps)
         /\ IF steps[wpc].kind = "cb"
              THEN /\ jobs' = Update(jobs, wjob,
                         update_progress(steps[wpc].progress, steps[wpc].desc), clock)
                   /\ wpc' = wpc + 1
                   /\ UNCHANGED <<rq, wjob, files>>
              ELSE \E ok \in BOOLEAN :
                     IF ok THEN /\ wpc' = wpc + 1
                                /\ files' = [files EXCEPT ![wjob] =
                                               @ \cup stage_output(steps[wpc].name)]
                                /\ UNCHANGED <<jobs, rq, wjob>>
                           ELSE WorkerFail(wjob) /\ UNCHANGED files
  /\ UNCHANGED <<nextId, enq, uploads, outputs, work, clock, recVars, trVars, fnVars>>

\* cleanup_work_files(output_dir / "work"): the directory is removed
cleanup_work_files(dirs, j) == dirs \ {j}

\* shutil.rmtree(work_dir): the files under the directory are removed
rmtree(present) == present \ WorkFiles

\* process_pdf has returned: the job is marked completed and the function
\* returns, so RQ records the task as finished
WorkerComplete ==
  /\ wjob # 0
  /\ LET dt == IF wjob \in DOMAIN jobs THEN jobs[wjob].document_type ELSE "text_pdf"
     IN  wpc = Len(process_pdf(dt)) + 1
  /\ jobs' = Update(jobs, wjob,
        [status |-> JobStatus.COMPLETED, stage |-> ProcessingStage.COMPLETED,
         progress |-> 100, output_files |-> collect_output_files(files[wjob]),
         error_message |-> ErrNone], clock)
  /\ rq' = [rq EXCEPT ![wjob] = "finished"]
  /\ work' = cleanup_work_files(work, wjob)
  /\ files' = [files EXCEPT ![wjob] = rmtree(@)]
  /\ wjob' = 0
  /\ wpc' = 0
  /\ UNCHANGED <<nextId, enq, uploads, outputs, clock, recVars, trVars, fnVars>>

\* the system goes down while a job is being processed: either the worker
\* alone dies and RQ moves its task to the failed registry, or Redis is lost
\* with it and no task is left
Crash ==
  /\ wjob # 0
  /\ \/ rq' = [rq EXCEPT ![wjob] = "failed"]
     \/ rq' = [j \in JobIds |-> "none"]
  /\ wjob' = 0
  /\ wpc' = 0
  /\ UNCHANGED <<jobs, nextId, enq, uploads, outputs, work, files, clock, recVars, trVars, fnVars>>

\* time passes
Tick ==
  /\ clock < MaxClock
  /\ clock' = clock + 1
  /\ UNCHANGED <<jobs, nextId, rq, enq, uploads, outputs, work, files, wjob, wpc, recVars, trVars, fnVars>>

(***************************************************************************)
(* src/api/jobs.py: the endpoints that change jobs.                        *)
(***************************************************************************)
\* create_job: the upload is saved, the row is added and the job is queued
CreateJob(dt) ==
  /\ nextId <= NumJobs
  /\ jobs' = [k \in DOMAIN jobs \cup {nextId} |->
                IF k = nextId THEN NewJob(dt, clock) ELSE jobs[k]]
  /\ uploads' = uploads \cup {nextId}
  /\ LET q == queue_job([rq |-> rq, enq |-> enq], nextId)
     IN  rq' = q.rq /\ enq' = q.enq
  /\ nextId' = nextId + 1
  /\ UNCHANGED <<outputs, work, files, clock, wjob, wpc, recVars, trVars, fnVars>>

\* cancel_job (DELETE /jobs/{id}): 404 for an unknown id, 400 for a job in a
\* final status, otherwise the task is cancelled in RQ and the row is marked
\* cancelled
CancelJob(j) ==
  /\ IF j \notin DOMAIN jobs THEN UNCHANGED <<jobs, rq>>
     ELSE IF jobs[j].status \in TerminalStatuses THEN UNCHANGED <<jobs, rq>>
     ELSE /\ rq' = rq_cancel(rq, j)
          /\ jobs' = Update(jobs, j, [status |-> JobStatus.CANCELLED], clock)
  /\ UNCHANGED <<nextId, enq, uploads, outputs, work, files, clock, wjob, wpc, recVars, trVars, fnVars>>

\* the response before any request
NoResponse == [op |-> "none", id |-> 0, code |-> 0]

\* a cancel endpoint that does not look at the job's status
cancel_job_any_status(st, j, now) ==
  IF j \notin DOMAIN st.jobs THEN [jobs |-> st.jobs, rq |-> st.rq, code |-> 404]
  ELSE [jobs |-> Update(st.jobs, j, [status |-> JobStatus.CANCELLED], now),
        rq |-> rq_cancel(st.rq, j), code |-> 200]

\* cancel_job (DELETE /jobs/{id}) with its response: the table and the
\* queue after the request and the HTTP status code.  st is [jobs, rq].
cancel_job(st, j, now) ==
  IF j \notin DOMAIN st.jobs THEN [jobs |-> st.jobs, rq |-> st.rq, code |-> 404]
  ELSE IF st.jobs[j].status \in
            {JobStatus.COMPLETED, JobStatus.FAILED, JobStatus.CANCELLED}
    THEN [jobs |-> st.jobs, rq |-> st.rq, code |-> 400]
  ELSE [jobs |-> Update(st.jobs, j, [status |-> JobStatus.CANCELLED], now),
        rq |-> rq_cancel(st.rq, j), code |-> 200]

\* a client sends DELETE /jobs/{j} and receives the response
CancelRequest(j) ==
  /\ LET r == cancel_job([jobs |-> jobs, rq |-> rq], j, clock)
     IN  /\ jobs' = r.jobs
         /\ rq' = r.rq
         /\ resp' = [op |-> "cancel", id |-> j, code |-> r.code]
  /\ UNCHANGED <<nextId, enq, uploads, outputs, work, files, clock, wjob, wpc, recVars>>
  /\ UNCHANGED trVars
  /\ UNCHANGED <<ptext, ppc, masked, stash, restored, ctext, max_input_tokens,
                 max_tokens_per_batch, cpc, chunks, results, packVars, rateVars>>

\* retry_job (POST /jobs/{id}/retry) with its response: 404 for an unknown
\* id, 400 for a job that is neither failed nor cancelled; otherwise the
\* reset assigns ProcessingStage.QUEUED, and when the enum has no such
\* member the attribute access raises before the job is queued or anything
\* is committed; the handler answers 500 and the session is closed with the
\* assignment of job.status discarded.  st is [jobs, rq, enq].
retry_job(st, j, now) ==
  LET rejected(code) == [jobs |-> st.jobs, rq |-> st.rq, enq |-> st.enq, code |-> code]
  IN  IF j \notin DOMAIN st.jobs THEN rejected(404)
      ELSE IF st.jobs[j].status \notin {JobStatus.FAILED, JobStatus.CANCELLED}
        THEN rejected(400)
      ELSE IF HasStage("QUEUED")
        THEN LET q == queue_job([rq |-> st.rq, enq |-> st.enq], j)
             IN  [jobs |-> Update(st.jobs, j,
                      [status |-> JobStatus.PENDING,
                       stage |-> ProcessingStage["QUEUED"],
                       progress |-> 0, error_message |-> ErrNone], now),
                  rq |-> q.rq, enq |-> q.enq, code |-> 200]
      ELSE rejected(500)

\* a client sends POST /jobs/{j}/retry and receives the response
RetryRequest(j) ==
  /\ LET r == retry_job([jobs |-> jobs, rq |-> rq, enq |-> enq], j, clock)
     IN  /\ jobs' = r.jobs
         /\ rq' = r.rq
         /\ enq' = r.enq
         /\ resp' = [op |-> "retry", id |-> j, code |-> r.code]
  /\ UNCHANGED <<nextId, uploads, outputs, work, files, clock, wjob, wpc, recVars>>
  /\ UNCHANGED trVars
  /\ UNCHANGED <<ptext, ppc, masked, stash, restored, ctext, max_input_tokens,
                 max_tokens_per_batch, cpc, chunks, results, packVars, rateVars>>

(***************************************************************************)
(* src/services/job_recovery.py: JobRecoveryService.                       *)
(* A state of the service's world is st = [jobs, rq, enq, errors].         *)
(***************************************************************************)
\* the query without its status filter
processing_jobs_all(tbl) == DOMAIN tbl

\* processing_jobs: the rows whose status is pending or processing
processing_jobs(tbl) == {j \in DOMAIN tbl : tbl[j].status \in ActiveStatuses}

\* a recovery that leaves a job without a task as it is
requeue_job_nothing(st, j, now) == st

\* _requeue_job: the reset assigns ProcessingStage.QUEUED; when the enum has
\* no such member the attribute access raises before anything is enqueued
\* or committed, and the handler marks the job failed
requeue_job(st, j, now) ==
  IF HasStage("QUEUED")
    THEN LET q == queue_job([rq |-> st.rq, enq |-> st.enq], j)
         IN  [st EXCEPT
                !.jobs = Update(st.jobs, j,
                   [status |-> JobStatus.PENDING, stage |-> ProcessingStage["QUEUED"],
                    progress |-> 0, error_message |-> ErrNone], now),
                !.rq = q.rq, !.enq = q.enq]
    ELSE [st EXCEPT
            !.jobs = Update(st.jobs, j,
               [status |-> JobStatus.FAILED, error_message |-> ErrRequeue], now)]

\* what the loop body of recover_orphaned_jobs sees for job j: "none" when
\* _get_rq_job returns None, "error" when rq_job.get_status() raises,
\* otherwise the task's status
Observed(st, j, raises) ==
  IF st.rq[j] = "none" THEN "none" ELSE IF raises THEN "error" ELSE st.rq[j]

\* the loop body without the write of job.status in its finished branch
RecoverJobFinishedKeepsStatus(st, j, now, raises) ==
  LET seen == Observed(st, j, raises)
  IN  IF seen = "none" THEN requeue_job(st, j, now)
      ELSE IF seen = "error" THEN [st EXCEPT !.errors = @ \cup {j}]
      ELSE IF seen = "failed"
        THEN [st EXCEPT !.jobs = Update(st.jobs, j,
                [status |-> JobStatus.FAILED, error_message |-> ErrRestart], now)]
      ELSE IF seen = "finished"
        THEN [st EXCEPT !.jobs = Update(st.jobs, j,
                [stage |-> ProcessingStage.COMPLETED, progress |-> 100], now)]
      ELSE st

\* the loop body without the write of job.error_message in its failed branch
RecoverJobFailedNoMessage(st, j, now, raises) ==
  LET seen == Observed(st, j, raises)
  IN  IF seen = "none" THEN requeue_job(st, j, now)
      ELSE IF seen = "error" THEN [st EXCEPT !.errors = @ \cup {j}]
      ELSE IF seen = "failed"
        THEN [st EXCEPT !.jobs = Update(st.jobs, j,
                [status |-> JobStatus.FAILED], now)]
      ELSE IF seen = "finished"
        THEN [st EXCEPT !.jobs = Update(st.jobs, j,
                [status |-> JobStatus.COMPLETED, stage |-> ProcessingStage.COMPLETED,
                 progress |-> 100], now)]
      ELSE st

\* the loop body with a finished branch that writes the status alone
RecoverJobStatusOnly(st, j, now, raises) ==
  LET seen == Observed(st, j, raises)
  IN  IF seen = "none" THEN requeue_job(st, j, now)
      ELSE IF seen = "error" THEN [st EXCEPT !.errors = @ \cup {j}]
      ELSE IF seen = "failed"
        THEN [st EXCEPT !.jobs = Update(st.jobs, j,
                [status |-> JobStatus.FAILED, error_message |-> ErrRestart], now)]
      ELSE IF seen = "finished"
        THEN [st EXCEPT !.jobs = Update(st.jobs, j,
                [status |-> JobStatus.COMPLETED], now)]
      ELSE st

\* the loop body of recover_orphaned_jobs for one job of processing_jobs
RecoverJob(st, j, now, raises) ==
  LET seen == Observed(st, j, raises)
  IN  IF seen = "none" THEN requeue_job(st, j, now)
      ELSE IF seen = "error" THEN [st EXCEPT !.errors = @ \cup {j}]
      ELSE IF seen = "failed"
        THEN [st EXCEPT !.jobs = Update(st.jobs, j,
                [status |-> JobStatus.FAILED, error_message |-> ErrRestart], now)]
      ELSE IF seen = "finished"
        THEN [st EXCEPT !.jobs = Update(st.jobs, j,
                [status |-> JobStatus.COMPLETED, stage |-> ProcessingStage.COMPLETED,
                 progress |-> 100], now)]
      ELSE st

\* a loop whose handler ends the run at the first error
LoopRestAbort(list, seen) == IF seen = "error" THEN <<>> ELSE Tail(list)

\* the jobs left to visit after an iteration that saw `seen`: the except
\* handler inside the loop logs the error and the for statement goes on
LoopRest(list, seen) == Tail(list)

RECURSIVE RecoverList(_, _, _)
RecoverList(st, list, now) ==
  IF list = <<>> THEN st
  ELSE RecoverList(RecoverJob(st, Head(list), now, FALSE),
                   LoopRest(list, Observed(st, Head(list), FALSE)), now)

\* a whole run of recover_orphaned_jobs with nothing else running and no
\* call raising
RecoverRun(st, now) ==
  RecoverList([st EXCEPT !.errors = {}], SetToSeq(processing_jobs(st.jobs)), now)

\* recover_orphaned_jobs, the query
RecoverBegin ==
  /\ rpc = "idle"
  /\ rpc' = "loop"
  /\ rlist' = SetToSeq(processing_jobs(jobs))
  /\ UNCHANGED <<rseen, rnew, rerrors>>
  /\ UNCHANGED <<trVars, fnVars>>
  /\ UNCHANGED <<jobs, nextId, rq, enq, uploads, outputs, work, files, clock, wjob, wpc>>

\* recover_orphaned_jobs, one iteration of the loop
RecoverStep ==
  /\ rpc = "loop"
  /\ rlist # <<>>
  /\ \E raises \in BOOLEAN :
       LET j == Head(rlist)
           st == [jobs |-> jobs, rq |-> rq, enq |-> enq, errors |-> rerrors]
           nx == RecoverJob(st, j, clock, raises)
       IN  /\ jobs' = nx.jobs
           /\ rq' = nx.rq
           /\ enq' = nx.enq
           /\ rerrors' = nx.errors
           /\ rseen' = [rseen EXCEPT ![j] = Observed(st, j, raises)]
           /\ rnew' = [rnew EXCEPT ![j] = @ + (nx.enq[j] - enq[j])]
           /\ rlist' = LoopRest(rlist, Observed(st, j, raises))
  /\ UNCHANGED <<nextId, uploads, outputs, work, files, clock, wjob, wpc, rpc, trVars, fnVars>>

\* recover_orphaned_jobs returns (its locals are gone)
RecoverEnd ==
  /\ rpc = "loop"
  /\ rlist = <<>>
  /\ rpc' = "idle"
  /\ rseen' = [j \in JobIds |-> "unseen"]
  /\ rnew' = [j \in JobIds |-> 0]
  /\ rerrors' = {}
  /\ UNCHANGED <<jobs, nextId, rq, enq, uploads, outputs, work, files, clock, wjob, wpc, rlist, trVars, fnVars>>

\* recover_orphaned_jobs from its query to its return with nothing else
\* running in between, as run_recovery_on_startup calls it
Recover ==
  /\ rpc = "idle"
  /\ LET st == [jobs |-> jobs, rq |-> rq, enq |-> enq, errors |-> {}]
         nx == RecoverRun(st, clock)
     IN  /\ jobs' = nx.jobs
         /\ rq' = nx.rq
         /\ enq' = nx.enq
  /\ UNCHANGED <<nextId, uploads, outputs, work, files, clock, wjob, wpc, recVars, trVars, fnVars>>

\* the largest max_age_hours the model passes to cleanup_old_jobs
MaxAge == 1

\* the retention query without its status filter
old_jobs_any_status(tbl, cutoff) == {j \in DOMAIN tbl : tbl[j].updated_at < cutoff}

\* old_jobs: the rows in a final status last updated before the cutoff
old_jobs(tbl, cutoff) ==
  {j \in DOMAIN tbl : tbl[j].status \in TerminalStatuses /\ tbl[j].updated_at < cutoff}

\* the loop body of cleanup_old_jobs: _cleanup_job_files, _cleanup_rq_job,
\* db.delete.  fs is [jobs, rq, uploads, outputs].
CleanupJob(fs, j) ==
  [jobs |-> Delete(fs.jobs, j),
   rq |-> [fs.rq EXCEPT ![j] = "none"],
   uploads |-> fs.uploads \ {j},
   outputs |-> fs.outputs \ {j}]

RECURSIVE CleanupList(_, _)
CleanupList(fs, list) ==
  IF list = <<>> THEN fs ELSE CleanupList(CleanupJob(fs, Head(list)), Tail(list))

\* a sweep that returns after the first job it removes
CleanupRunFirstOnly(fs, now, max_age_hours) ==
  LET list == SetToSeq(old_jobs(fs.jobs, now - max_age_hours))
  IN  IF list = <<>> THEN fs ELSE CleanupJob(fs, Head(list))

\* cleanup_old_jobs(max_age_hours) called at time `now`
CleanupRun(fs, now, max_age_hours) ==
  CleanupList(fs, SetToSeq(old_jobs(fs.jobs, now - max_age_hours)))

\* run_recovery_on_startup calls cleanup_old_jobs after recover_orphaned_jobs
\* has returned
Cleanup(max_age_hours) ==
  /\ rpc = "idle"
  /\ LET fs == [jobs |-> jobs, rq |-> rq, uploads |-> uploads, outputs |-> outputs]
         nx == CleanupRun(fs, clock, max_age_hours)
     IN  /\ jobs' = nx.jobs
         /\ rq' = nx.rq
         /\ uploads' = nx.uploads
         /\ outputs' = nx.outputs
         /\ work' = work \cap nx.outputs
         /\ files' = [j \in JobIds |-> IF j \in nx.outputs THEN files[j] ELSE {}]
  /\ UNCHANGED <<nextId, enq, clock, wjob, wpc, recVars, trVars, fnVars>>

(***************************************************************************)
(* src/services/translation_service.py: DocumentTranslator.                *)
(* A text is the sequence of its tokens: words, "nn" (a blank line), "F"   *)
(* (a ``` fence line) and "T" (a ~~~ fence line).                          *)
(***************************************************************************)
\* the longest document of the model, in tokens
MaxDocLen == 4
Alphabet == {"a", "nn", "F"}
\* the tokens of the documents whose blocks and paragraphs are followed one
\* by one: two words, the blank line, and "T" (a ~~~ fence line)
MarkdownAlphabet == {"a", "b", "nn", "F", "T"}
FenceMarks == {"F", "T"}

\* the key arguments of the model ("None": translate without checkpoints)
Keys == {"k1", "k2"}
\* the flush_every arguments of the model
FlushChoices == {1, 2}

RECURSIVE SeqsUpTo(_, _)
SeqsUpTo(S, n) ==
  IF n = 0 THEN {<<>>}
  ELSE LET shorter == SeqsUpTo(S, n - 1)
       IN  shorter \cup {Append(t, x) : t \in {u \in shorter : Len(u) = n - 1}, x \in S}

\* the translation engine on one text: deterministic, word by word
TrWord(w) ==
  CASE w = "a" -> "A" [] w = "b" -> "B"
    [] w = "a." -> "A." [] w = "b." -> "B." [] OTHER -> w
translate_batch(text) == [i \in 1..Len(text) |-> TrWord(text[i])]

\* FENCE_RE.split(md_text): prose and fenced blocks alternate, prose first;
\* a fence runs from a fence mark to the nearest later one, and a mark that
\* is never closed stays in the prose
RECURSIVE FenceSplitFrom(_, _, _, _)
FenceSplitFrom(text, pos, cur, parts) ==
  IF pos > Len(text) THEN Append(parts, cur)
  ELSE IF text[pos] \in FenceMarks
          /\ \E q \in (pos + 1)..Len(text) : text[q] = text[pos]
    THEN LET q == CHOOSE q \in (pos + 1)..Len(text) :
                    /\ text[q] = text[pos]
                    /\ \A r \in (pos + 1)..(q - 1) : text[r] # text[pos]
         IN  FenceSplitFrom(text, q + 1, <<>>,
                            parts \o <<cur, SubSeq(text, pos, q)>>)
    ELSE FenceSplitFrom(text, pos + 1, Append(cur, text[pos]), parts)

FenceSplit(text) == FenceSplitFrom(text, 1, <<>>, <<>>)

\* re.split(r"(\n\s*\n)", protected): paragraphs and the blank-line runs
\* between them, in order (a paragraph may be empty)
RECURSIVE ParagraphsFrom(_, _, _, _)
ParagraphsFrom(text, pos, cur, acc) ==
  IF pos > Len(text) THEN Append(acc, cur)
  ELSE IF text[pos] = "nn"
    THEN LET q == CHOOSE q \in pos..Len(text) :
                    /\ \A r \in pos..q : text[r] = "nn"
                    /\ (q = Len(text) \/ text[q + 1] # "nn")
         IN  ParagraphsFrom(text, q + 1, <<>>,
                            acc \o <<cur, SubSeq(text, pos, q)>>)
    ELSE ParagraphsFrom(text, pos + 1, Append(cur, text[pos]), acc)

Paragraphs(text) == ParagraphsFrom(text, 1, <<>>, <<>>)

\* p.strip() == "": the paragraph holds nothing but blank lines
IsBlank(p) == \A i \in 1..Len(p) : p[i] = "nn"

RECURSIVE Concat(_)
Concat(ss) == IF ss = <<>> THEN <<>> ELSE Head(ss) \o Concat(Tail(ss))

\* a buffer that takes every paragraph
BufferAll(ps) == ps

\* the buffer of a prose block: its non-blank paragraphs in order
RECURSIVE Buffer(_)
Buffer(ps) ==
  IF ps = <<>> THEN <<>>
  ELSE IF IsBlank(Head(ps)) THEN Buffer(Tail(ps))
  ELSE <<Head(ps)>> \o Buffer(Tail(ps))

\* the rebuilt paragraphs: a blank paragraph is copied from paragraphs, any
\* other takes the next element of translated (next(t_iter))
RECURSIVE Rebuild(_, _)
Rebuild(ps, translated) ==
  IF ps = <<>> THEN <<>>
  ELSE IF IsBlank(Head(ps)) THEN <<Head(ps)>> \o Rebuild(Tail(ps), translated)
  ELSE <<Head(translated)>> \o Rebuild(Tail(ps), Tail(translated))

\* the body of the loop for a prose block: the non-blank paragraphs go to
\* the engine and the block is rebuilt from its outputs.  A paragraph of the
\* model has no inline code or link and is far below max_input_tokens, so
\* protect_tokens leaves it as it is and it is the single chunk of its text.
TranslateProse(part) ==
  LET ps == Paragraphs(part)
      buffer == Buffer(ps)
      translated == [k \in 1..Len(buffer) |-> translate_batch(buffer[k])]
  IN  Concat(Rebuild(ps, translated))

\* a loop body that sends fenced blocks through the translation as well
BlockOutputAllProse(parts, i) == TranslateProse(parts[i + 1])

\* the output of block i (0-based) of parts
BlockOutput(parts, i) ==
  IF i % 2 = 1 THEN parts[i + 1] ELSE TranslateProse(parts[i + 1])

\* the texts block i sends to the engine
BlockSent(parts, i) ==
  IF i % 2 = 1 THEN <<>>
  ELSE LET buf == Buffer(Paragraphs(parts[i + 1]))
       IN  [k \in 1..Len(buf) |-> [block |-> i, text |-> buf[k]]]

(***************************************************************************)
(* The checkpoint file.  json.dumps writes a record as the sequence of its *)
(* JSON tokens; a file that holds only a prefix of them does not parse.    *)
(***************************************************************************)
JsonTok(t, str, n, txt) == [t |-> t, s |-> str, n |-> n, p |-> txt]

\* a serialization that leaves the parts out
JsonDumpsNoParts(ck) ==
  <<JsonTok("{", "", 0, <<>>), JsonTok("key", ck.key, 0, <<>>),
    JsonTok("done", "", ck.done, <<>>), JsonTok("}", "", 0, <<>>)>>

\* json.dumps(checkpoint)
JsonDumps(ck) ==
  <<JsonTok("{", "", 0, <<>>), JsonTok("key", ck.key, 0, <<>>),
    JsonTok("done", "", ck.done, <<>>)>>
  \o [k \in 1..Len(ck.parts) |-> JsonTok("part", "", 0, ck.parts[k])]
  \o <<JsonTok("}", "", 0, <<>>)>>

\* whether json.loads(data) returns (otherwise it raises)
JsonValid(data) ==
  /\ Len(data) >= 4
  /\ data[1].t = "{"
  /\ data[2].t = "key"
  /\ data[3].t = "done"
  /\ \A k \in 4..(Len(data) - 1) : data[k].t = "part"
  /\ data[Len(data)].t = "}"

\* json.loads(data) for valid data
JsonLoads(data) ==
  [key |-> data[2].s, done |-> data[3].n,
   parts |-> [k \in 1..(Len(data) - 4) |-> data[k + 3].p]]

ZeroCheckpoint(key) == [key |-> key, done |-> 0, parts |-> <<>>]

NoFile == [exists |-> FALSE, data |-> <<>>]

\* a load that does not compare the stored key
load_checkpoint_any_key(file, key) ==
  IF file.exists /\ JsonValid(file.data)
    THEN JsonLoads(file.data)
    ELSE ZeroCheckpoint(key)

\* _load_checkpoint(out_dir, key)
load_checkpoint(file, key) ==
  IF file.exists /\ JsonValid(file.data) /\ JsonLoads(file.data).key = key
    THEN JsonLoads(file.data)
    ELSE ZeroCheckpoint(key)

\* a call that ignores the checkpoint it loaded
ResumeFromZero(ck) == [start_i |-> 0, out_parts |-> <<>>]

\* a resumption that does not seed out_parts from the checkpoint
ResumeNoSeed(ck) == [start_i |-> ck.done, out_parts |-> <<>>]

\* the resumption: start_i and the seeded out_parts
Resume(ck) ==
  [start_i |-> ck.done,
   out_parts |-> IF ck.done > 0
                   THEN SubSeq(ck.parts, 1, IF ck.done <= Len(ck.parts)
                                              THEN ck.done ELSE Len(ck.parts))
                   ELSE <<>>]

jobsUnchanged == UNCHANGED <<jobVars, fnVars>>

\* the locals of a call that is not running
NoLocals ==
  /\ ti' = 0
  /\ out_parts' = <<>>
  /\ flush_every' = 1
  /\ checkpoint' = ZeroCheckpoint("None")
  /\ tfinal' = FALSE
  /\ fprev' = NoFile

\* translate_markdown_document(md_text, out_dir, key, flush_every) is called:
\* the text is split and the checkpoint loaded
TrStart(key, flush) ==
  /\ tpc \in {"idle", "done", "raised"}
  /\ LET ck == IF key # "None" THEN load_checkpoint(ckfile, key)
               ELSE [key |-> "None", done |-> 0, parts |-> <<>>]
         r == Resume(ck)
     IN  /\ checkpoint' = ck
         /\ start_i' = r.start_i
         /\ ti' = r.start_i
         /\ out_parts' = r.out_parts
  /\ tkey' = key
  /\ flush_every' = flush
  /\ sent' = <<>>
  /\ tresult' = <<>>
  /\ tfinal' = FALSE
  /\ fprev' = NoFile
  /\ tpc' = "loop"
  /\ UNCHANGED <<md_text, ckfile>>
  /\ jobsUnchanged

\* a periodic save after every block
FlushDueEveryBlock(key, i, flush) == key # "None"

\* the condition of the periodic save after block i:
\* out_dir and key and ((i + 1) % flush_every == 0)
FlushDue(key, i, flush) == key # "None" /\ (i + 1) % flush = 0

\* one iteration of the loop over the blocks, up to the periodic save; the
\* engine may raise on a block that sends it text, which ends the call
TrBlock ==
  /\ tpc = "loop"
  /\ ti < Len(FenceSplit(md_text))
  /\ LET parts == FenceSplit(md_text)
     IN  \E ok \in BOOLEAN :
           IF ~ok /\ BlockSent(parts, ti) # <<>>
             THEN /\ tpc' = "raised"
                  /\ sent' = sent \o <<Head(BlockSent(parts, ti))>>
                  /\ NoLocals
             ELSE /\ sent' = sent \o BlockSent(parts, ti)
                  /\ out_parts' = Append(out_parts, BlockOutput(parts, ti))
                  /\ IF FlushDue(tkey, ti, flush_every)
                       THEN /\ checkpoint' = [key |-> tkey, done |-> ti + 1,
                                              parts |-> out_parts']
                            /\ tpc' = "open"
                            /\ fprev' = ckfile
                            /\ UNCHANGED <<ti, tfinal>>
                       ELSE /\ ti' = ti + 1
                            /\ UNCHANGED <<checkpoint, tpc, tfinal, fprev>>
                  /\ UNCHANGED flush_every
  /\ UNCHANGED <<md_text, ckfile, start_i, tkey, tresult>>
  /\ jobsUnchanged

\* the loop is over: the final checkpoint is saved when a key was given,
\* and the joined document is returned
TrFinish ==
  /\ tpc = "loop"
  /\ ti >= Len(FenceSplit(md_text))
  /\ IF tkey # "None"
       THEN /\ checkpoint' = [key |-> tkey, done |-> Len(FenceSplit(md_text)),
                              parts |-> out_parts]
            /\ tpc' = "open"
            /\ tfinal' = TRUE
            /\ fprev' = ckfile
            /\ UNCHANGED tresult
            /\ UNCHANGED <<ti, out_parts, flush_every>>
       ELSE /\ tpc' = "done"
            /\ tresult' = Concat(out_parts)
            /\ NoLocals
  /\ UNCHANGED <<md_text, ckfile, start_i, tkey, sent>>
  /\ jobsUnchanged

\* _save_checkpoint: write_text opens the file for writing, which creates or
\* truncates it
SaveOpen ==
  /\ tpc = "open"
  /\ ckfile' = [exists |-> TRUE, data |-> <<>>]
  /\ tpc' = "write"
  /\ UNCHANGED <<md_text, ti, start_i, out_parts, tkey, flush_every, checkpoint,
                 sent, tfinal, tresult, fprev>>
  /\ jobsUnchanged

\* _save_checkpoint: the serialized checkpoint reaches the file in one or
\* more writes; after the last the call returns to the loop
SaveWrite ==
  /\ tpc = "write"
  /\ LET all == JsonDumps(checkpoint)
         have == Len(ckfile.data)
     IN  \E n \in (have + 1)..Len(all) :
           /\ ckfile' = [exists |-> TRUE, data |-> SubSeq(all, 1, n)]
           /\ IF n < Len(all)
                THEN UNCHANGED <<tpc, ti, tresult, out_parts, flush_every,
                                 checkpoint, tfinal, fprev>>
                ELSE IF tfinal
                  THEN /\ tpc' = "done"
                       /\ tresult' = Concat(out_parts)
                       /\ NoLocals
                  ELSE /\ tpc' = "loop"
                       /\ ti' = ti + 1
                       /\ UNCHANGED <<tresult, out_parts, flush_every,
                                      checkpoint, tfinal, fprev>>
  /\ UNCHANGED <<md_text, start_i, tkey, sent>>
  /\ jobsUnchanged

\* _save_checkpoint: write_text raises (the file cannot be opened, or a
\* write fails and leaves what was written so far); the except clause logs
\* the error and the call goes on as after a save
SaveFail ==
  /\ tpc \in {"open", "write"}
  /\ IF tfinal
       THEN /\ tpc' = "done"
            /\ tresult' = Concat(out_parts)
            /\ NoLocals
       ELSE /\ tpc' = "loop"
            /\ ti' = ti + 1
            /\ UNCHANGED <<tresult, out_parts, flush_every, checkpoint, tfinal, fprev>>
  /\ UNCHANGED <<md_text, ckfile, start_i, tkey, sent>>
  /\ jobsUnchanged

\* the process is killed during a call: its locals are lost, the file stays
\* as it is
TrKill ==
  /\ tpc \in {"loop", "open", "write"}
  /\ tpc' = "idle"
  /\ NoLocals
  /\ start_i' = 0
  /\ tkey' = "None"
  /\ sent' = <<>>
  /\ UNCHANGED <<md_text, ckfile, tresult>>
  /\ jobsUnchanged

(***************************************************************************)
(* src/services/translation_service.py: MarkdownProcessor.                 *)
(* Here a text is the sequence of its characters: the ones the patterns    *)
(* name, "x" for any other character, and "TOKEN_n" written as one         *)
(* character.                                                              *)
(***************************************************************************)
\* the longest text given to protect_tokens, in characters
MaxTextLen == 6
\* "q" is the backquote
MdChars == {"q", "[", "]", "(", ")", "!", "x"}

\* the middle of a placeholder, by its number
TokenNames == <<"TOKEN_0", "TOKEN_1", "TOKEN_2", "TOKEN_3">>

\* f"[[[TOKEN_{n}]]]"
Placeholder(n) == <<"[", "[", "[", TokenNames[n + 1], "]", "]", "]">>

\* the first position at or after position from that holds the character c
\* (0: none)
Find(text, c, from) ==
  IF \E q \in from..Len(text) : text[q] = c
    THEN CHOOSE q \in from..Len(text) :
           text[q] = c /\ \A r \in from..(q - 1) : text[r] # c
    ELSE 0

\* INLINE_CODE_RE, a backquote up to the next backquote, matched at position
\* p: the position of its last character (0: no match at p)
InlineCodeEnd(text, p) == IF text[p] = "q" THEN Find(text, "q", p + 1) ELSE 0

\* LINK_OR_IMG_RE = (!?\[[^\]]*\]\([^)]+\)) matched at position p: the
\* bracket closes at the first "]", "(" follows at once, and at least one
\* character stands before the first ")"
LinkOrImgEnd(text, p) ==
  LET b == IF text[p] = "!" THEN p + 1 ELSE p
  IN  IF b > Len(text) \/ text[b] # "[" THEN 0
      ELSE LET c == Find(text, "]", b + 1)
           IN  IF c = 0 \/ c + 1 > Len(text) \/ text[c + 1] # "(" THEN 0
               ELSE LET e == Find(text, ")", c + 2)
                    IN  IF e = 0 \/ e = c + 2 THEN 0 ELSE e

MatchEnd(pattern, text, p) ==
  IF pattern = "INLINE_CODE_RE" THEN InlineCodeEnd(text, p)
  ELSE LinkOrImgEnd(text, p)

\* pattern.sub(_stash, text) from position pos on: matches are taken from
\* left to right and do not overlap; _stash appends the match to the stash
\* and returns the placeholder of its index
RECURSIVE SubStash(_, _, _, _, _)
SubStash(pattern, text, pos, out, st) ==
  IF pos > Len(text) THEN [text |-> out, stash |-> st]
  ELSE LET e == MatchEnd(pattern, text, pos)
       IN  IF e # 0
             THEN SubStash(pattern, text, e + 1, out \o Placeholder(Len(st)),
                           Append(st, SubSeq(text, pos, e)))
             ELSE SubStash(pattern, text, pos + 1, Append(out, text[pos]), st)

\* MarkdownProcessor.protect_tokens(text): inline code first, then links and
\* images in the text the first pass returned
protect_tokens(text) ==
  LET first == SubStash("INLINE_CODE_RE", text, 1, <<>>, <<>>)
  IN  SubStash("LINK_OR_IMG_RE", first.text, 1, <<>>, first.stash)

\* PLACEHOLDER_RE = \[\[\[TOKEN_(\d+)\]\]\] matched at position p
PlaceholderAt(text, p) ==
  /\ p + 6 <= Len(text)
  /\ \A k \in 0..2 : text[p + k] = "["
  /\ \E n \in 1..Len(TokenNames) : text[p + 3] = TokenNames[n]
  /\ \A k \in 4..6 : text[p + k] = "]"

\* int(m.group(1))
TokenId(c) == CHOOSE n \in 0..(Len(TokenNames) - 1) : TokenNames[n + 1] = c

\* PLACEHOLDER_RE.sub(_restore, text) from position pos on: the text put in
\* for a placeholder is not scanned again
RECURSIVE SubRestore(_, _, _, _)
SubRestore(text, pos, out, st) ==
  IF pos > Len(text) THEN out
  ELSE IF PlaceholderAt(text, pos)
    THEN SubRestore(text, pos + 7, out \o st[TokenId(text[pos + 3]) + 1], st)
    ELSE SubRestore(text, pos + 1, Append(out, text[pos]), st)

\* MarkdownProcessor.restore_tokens(text, stash)
restore_tokens(text, st) == SubRestore(text, 1, <<>>, st)

\* protect_tokens(ptext) is called
ProtectTokens ==
  /\ ppc = "input"
  /\ LET r == protect_tokens(ptext)
     IN  masked' = r.text /\ stash' = r.stash
  /\ ppc' = "protected"
  /\ UNCHANGED <<ptext, restored>>
  /\ UNCHANGED <<ctext, max_input_tokens, max_tokens_per_batch, cpc, chunks, results>>
  /\ UNCHANGED <<packVars, apiVars, rateVars>>
  /\ UNCHANGED <<jobVars, trVars>>

\* restore_tokens is called with what protect_tokens returned
RestoreTokens ==
  /\ ppc = "protected"
  /\ restored' = restore_tokens(masked, stash)
  /\ ppc' = "restored"
  /\ UNCHANGED <<ptext, masked, stash>>
  /\ UNCHANGED <<ctext, max_input_tokens, max_tokens_per_batch, cpc, chunks, results>>
  /\ UNCHANGED <<packVars, apiVars, rateVars>>
  /\ UNCHANGED <<jobVars, trVars>>

(***************************************************************************)
(* src/services/translation_service.py: TranslationService.                *)
(* Here a text is the sequence of its words, one space between two words;  *)
(* a word that ends in a full stop ends a sentence.                        *)
(***************************************************************************)
\* the longest text given to chunk_by_tokens, in words
MaxWords == 4
\* max_input_tokens runs over 1..MaxTokens
MaxTokens == 6
Words == {"a", "b", "a.", "b."}
\* the settings of max_tokens_per_batch in the model (0: count-based batches)
BatchBudgets == {0, 5, 9}
\* the settings of batch_size in the model
BatchSizes == {1, 2}

\* the tokens the tokenizer makes of one word
WordTokens(w) == IF w \in {"b", "b."} THEN 3 ELSE 1

RECURSIVE SumTokens(_)
SumTokens(text) ==
  IF text = <<>> THEN 0 ELSE WordTokens(Head(text)) + SumTokens(Tail(text))

\* what add_special_tokens=True adds to every text: the language code and
\* the end-of-sentence token of the mBART-50 and NLLB-200 tokenizers
SpecialTokens == 2

\* count_tokens(text)
count_tokens(text) == SpecialTokens + SumTokens(text)

\* whether the word ends in one of . ? !
EndsSentence(w) == w \in {"a.", "b."}

\* re.split(r"(?<=[\.\?!])\s+", text): the text is cut at the white space
\* that follows a sentence end; the empty text is one empty sentence
RECURSIVE SentencesFrom(_, _, _, _)
SentencesFrom(text, pos, cur, acc) ==
  IF pos > Len(text) THEN Append(acc, cur)
  ELSE IF EndsSentence(text[pos]) /\ pos < Len(text)
    THEN SentencesFrom(text, pos + 1, <<>>, Append(acc, Append(cur, text[pos])))
    ELSE SentencesFrom(text, pos + 1, Append(cur, text[pos]), acc)

Sentences(text) == SentencesFrom(text, 1, <<>>, <<>>)

\* the hard split of a long sentence by words: cur is closed when the next
\* word would take it over max_tokens, and a word that is too long by itself
\* becomes a chunk of its own
RECURSIVE HardSplit(_, _, _, _)
HardSplit(words, cur, out, max_tokens) ==
  IF words = <<>> THEN (IF cur # <<>> THEN Append(out, cur) ELSE out)
  ELSE LET w == Head(words)
           tw == count_tokens(Append(cur, w))
       IN  IF tw > max_tokens /\ cur # <<>>
             THEN HardSplit(Tail(words), <<w>>, Append(out, cur), max_tokens)
             ELSE HardSplit(Tail(words), Append(cur, w), out, max_tokens)

\* a test that lets every sentence into the buffer
FitsAlways(buf_tokens, t, max_tokens) == TRUE

\* buf_tokens + t <= max_tokens
Fits(buf_tokens, t, max_tokens) == buf_tokens + t <= max_tokens

\* " ".join(buf)
RECURSIVE Join(_)
Join(buf) == IF buf = <<>> THEN <<>> ELSE Head(buf) \o Join(Tail(buf))

\* the for loop of chunk_by_tokens over the sentences, and the flush of the
\* buffer after it; a long sentence is split into `out` at once, whatever
\* the buffer holds
RECURSIVE ChunkLoop(_, _, _, _, _)
ChunkLoop(sents, out, buf, buf_tokens, max_tokens) ==
  IF sents = <<>> THEN (IF buf # <<>> THEN Append(out, Join(buf)) ELSE out)
  ELSE LET s == Head(sents)
           t == count_tokens(s)
       IN  IF t > max_tokens
             THEN ChunkLoop(Tail(sents), HardSplit(s, <<>>, out, max_tokens),
                            buf, buf_tokens, max_tokens)
           ELSE IF Fits(buf_tokens, t, max_tokens)
             THEN ChunkLoop(Tail(sents), out, Append(buf, s), buf_tokens + t,
                            max_tokens)
           ELSE ChunkLoop(Tail(sents),
                          IF buf # <<>> THEN Append(out, Join(buf)) ELSE out,
                          <<s>>, t, max_tokens)

\* chunk_by_tokens(text, max_tokens)
chunk_by_tokens(text, max_tokens) ==
  ChunkLoop(Sentences(text), <<>>, <<>>, 0, max_tokens)

\* lengths.sort(key=lambda x: x[1], reverse=True): a stable sort, so pieces
\* of equal length keep their order
RECURSIVE InsertByTokens(_, _)
InsertByTokens(sorted, p) ==
  IF sorted = <<>> THEN <<p>>
  ELSE IF count_tokens(Head(sorted)) >= count_tokens(p)
    THEN <<Head(sorted)>> \o InsertByTokens(Tail(sorted), p)
    ELSE <<p>> \o sorted

RECURSIVE SortByTokens(_)
SortByTokens(pieces) ==
  IF pieces = <<>> THEN <<>>
  ELSE InsertByTokens(SortByTokens(SubSeq(pieces, 1, Len(pieces) - 1)),
                      pieces[Len(pieces)])

\* the for loop of pack_by_token_budget over the sorted pieces
RECURSIVE PackLoop(_, _, _, _, _)
PackLoop(lengths, batches, cur_batch, cur_tokens, budget) ==
  IF lengths = <<>>
    THEN (IF cur_batch # <<>> THEN Append(batches, cur_batch) ELSE batches)
  ELSE LET p == Head(lengths)
           t == count_tokens(p)
       IN  IF t > budget
             THEN PackLoop(Tail(lengths),
                           (IF cur_batch # <<>> THEN Append(batches, cur_batch)
                            ELSE batches) \o << <<p>> >>,
                           <<>>, 0, budget)
           ELSE IF cur_tokens + t > budget /\ cur_batch # <<>>
             THEN PackLoop(Tail(lengths), Append(batches, cur_batch), <<p>>, t,
                           budget)
           ELSE PackLoop(Tail(lengths), batches, Append(cur_batch, p),
                         cur_tokens + t, budget)

\* a packing that puts every chunk into one batch
pack_into_one_batch(pieces, budget) ==
  IF pieces = <<>> THEN <<>> ELSE <<pieces>>

\* a packing that leaves out the chunks that are over the budget
pack_drop_oversized(pieces, budget) ==
  PackLoop(SortByTokens(SelectSeq(pieces, LAMBDA p : count_tokens(p) <= budget)),
           <<>>, <<>>, 0, budget)

\* pack_by_token_budget(pieces, max_tokens_per_batch)
pack_by_token_budget(pieces, budget) ==
  PackLoop(SortByTokens(pieces), <<>>, <<>>, 0, budget)

\* _batched(iterable, n)
RECURSIVE batched(_, _)
batched(pieces, n) ==
  IF pieces = <<>> THEN <<>>
  ELSE IF Len(pieces) <= n THEN <<pieces>>
  ELSE <<SubSeq(pieces, 1, n)>> \o batched(SubSeq(pieces, n + 1, Len(pieces)), n)

\* translate_batch on a list of texts: one output per text, in order
TranslateList(batch) == [k \in 1..Len(batch) |-> translate_batch(batch[k])]

\* the body of the loop of translate_texts_token_safe for one text: the
\* translations of the batches, in the order of the batches, joined
translate_text(text, max_tokens, budget, batch_size) ==
  LET pieces == chunk_by_tokens(text, max_tokens)
      batches == IF budget > 0 THEN pack_by_token_budget(pieces, budget)
                 ELSE batched(pieces, batch_size)
      translated_chunks == Join([b \in 1..Len(batches) |-> TranslateList(batches[b])])
  IN  Join(translated_chunks)

\* translate_texts_token_safe(texts): one result per text
translate_texts_token_safe(texts, max_tokens, budget, batch_size) ==
  [k \in 1..Len(texts) |-> translate_text(texts[k], max_tokens, budget, batch_size)]

\* chunk_by_tokens(ctext, settings.max_input_tokens) is called
ChunkByTokens ==
  /\ cpc = "input"
  /\ chunks' = chunk_by_tokens(ctext, max_input_tokens)
  /\ cpc' = "chunked"
  /\ UNCHANGED <<ctext, max_input_tokens, max_tokens_per_batch, results>>
  /\ UNCHANGED <<ptext, ppc, masked, stash, restored>>
  /\ UNCHANGED <<packVars, apiVars, rateVars>>
  /\ UNCHANGED <<jobVars, trVars>>

\* translate_texts_token_safe([ctext]) is called
TranslateTextsTokenSafe ==
  /\ cpc = "input"
  /\ \E batch_size \in BatchSizes :
       results' = translate_texts_token_safe(<<ctext>>, max_input_tokens,
                                             max_tokens_per_batch, batch_size)
  /\ chunks' = chunk_by_tokens(ctext, max_input_tokens)
  /\ cpc' = "translated"
  /\ UNCHANGED <<ctext, max_input_tokens, max_tokens_per_batch>>
  /\ UNCHANGED <<ptext, ppc, masked, stash, restored>>
  /\ UNCHANGED <<packVars, apiVars, rateVars>>
  /\ UNCHANGED <<jobVars, trVars>>

\* the budgets given to pack_by_token_budget
PackBudgets == {1, 3, 5, 6, 9}
\* the longest list of chunks given to pack_by_token_budget
MaxPieces == 3
\* the longest chunk of such a list, in words
MaxPieceWords == 2
\* the words of the chunks of such a list
PieceWords == {"a", "b"}

\* pack_by_token_budget(pack_pieces, max_tokens_per_batch) is called
PackByTokenBudget ==
  /\ bpc = "input"
  /\ packed' = pack_by_token_budget(pack_pieces, max_tokens_per_batch)
  /\ bpc' = "packed"
  /\ UNCHANGED <<pack_pieces, max_tokens_per_batch>>
  /\ UNCHANGED <<ptext, ppc, masked, stash, restored>>
  /\ UNCHANGED <<ctext, max_input_tokens, cpc, chunks, results>>
  /\ UNCHANGED <<apiVars, rateVars>>
  /\ UNCHANGED <<jobVars, trVars>>

(***************************************************************************)
(* src/utils/security.py: RateLimiter.  Times are whole seconds; several   *)
(* calls may read the same time.                                           *)
(***************************************************************************)
\* the clock of the rate limiter runs over 0..MaxTime
MaxTime == 4
\* the number of calls of is_allowed in a behaviour
MaxCalls == 5
Identifiers == {"ip1", "ip2"}
\* the max_requests and window_seconds arguments of the constructor
MaxRequestsChoices == {1, 2}
WindowChoices == {1, 2}

\* a cleaning that keeps every entry
CleanNothing(reqs, window_start) == reqs

\* "Clean old entries": every list keeps its times after window_start
Clean(reqs, window_start) ==
  [k \in DOMAIN reqs |-> SelectSeq(reqs[k], LAMBDA t : t > window_start)]

\* RateLimiter.is_allowed(identifier) called at time now: the new
\* self.requests and the answer
is_allowed(reqs, identifier, now, max, window) ==
  LET cleaned == Clean(reqs, now - window)
      current_requests ==
        IF identifier \in DOMAIN cleaned THEN cleaned[identifier] ELSE <<>>
  IN  IF Len(current_requests) >= max
        THEN [requests |-> cleaned, allowed |-> FALSE]
        ELSE [requests |->
                [k \in DOMAIN cleaned \cup {identifier} |->
                   IF k = identifier THEN Append(current_requests, now)
                   ELSE cleaned[k]],
              allowed |-> TRUE]

\* is_allowed(identifier) is called
IsAllowed(identifier) ==
  /\ Len(calls) < MaxCalls
  /\ LET r == is_allowed(requests, identifier, rl_time, max_requests, window_seconds)
     IN  /\ requests' = r.requests
         /\ calls' = Append(calls, [identifier |-> identifier, time |-> rl_time,
                                    allowed |-> r.allowed])
  /\ UNCHANGED <<max_requests, window_seconds, rl_time>>
  /\ UNCHANGED <<ptext, ppc, masked, stash, restored, ctext, max_input_tokens,
                 max_tokens_per_batch, cpc, chunks, results, packVars, apiVars>>
  /\ UNCHANGED <<jobVars, trVars>>

\* a second passes
RateTick ==
  /\ rl_time < MaxTime
  /\ rl_time' = rl_time + 1
  /\ UNCHANGED <<requests, max_requests, window_seconds, calls>>
  /\ UNCHANGED <<ptext, ppc, masked, stash, restored, ctext, max_input_tokens,
                 max_tokens_per_batch, cpc, chunks, results, packVars, apiVars>>
  /\ UNCHANGED <<jobVars, trVars>>

(***************************************************************************)
(* The job service as a whole.                                             *)
(***************************************************************************)
JobInit ==
  /\ jobs = [j \in {} |-> 0]
  /\ nextId = 1
  /\ rq = [j \in JobIds |-> "none"]
  /\ enq = [j \in JobIds |-> 0]
  /\ uploads = {}
  /\ outputs = {}
  /\ work = {}
  /\ files = [j \in JobIds |-> {}]
  /\ clock = 0
  /\ wjob = 0
  /\ wpc = 0
  /\ rpc = "idle"
  /\ rlist = <<>>
  /\ rseen = [j \in JobIds |-> "unseen"]
  /\ rnew = [j \in JobIds |-> 0]
  /\ rerrors = {}

\* no translation is running and no checkpoint file exists
TrIdle ==
  /\ ckfile = NoFile
  /\ tpc = "idle"
  /\ ti = 0
  /\ start_i = 0
  /\ out_parts = <<>>
  /\ tkey = "None"
  /\ flush_every = 1
  /\ checkpoint = ZeroCheckpoint("None")
  /\ sent = <<>>
  /\ tfinal = FALSE
  /\ tresult = <<>>
  /\ fprev = NoFile

\* no call of protect_tokens or restore_tokens has been made
MdIdle ==
  /\ ppc = "input"
  /\ masked = <<>>
  /\ stash = <<>>
  /\ restored = <<>>

\* no call of chunk_by_tokens or translate_texts_token_safe has been made
ChunkIdle ==
  /\ cpc = "input"
  /\ chunks = <<>>
  /\ results = <<>>

\* no call of pack_by_token_budget has been made
PackIdle ==
  /\ bpc = "input"
  /\ packed = <<>>

\* no request has been answered
ApiIdle == resp = NoResponse

\* a limiter of one request a second that has not been called
RateIdle ==
  /\ requests = [k \in {} |-> <<>>]
  /\ max_requests = 1
  /\ window_seconds = 1
  /\ rl_time = 0
  /\ calls = <<>>

\* the text functions are not in use
FnIdle ==
  /\ ptext = <<>>
  /\ MdIdle
  /\ ctext = <<>>
  /\ max_input_tokens = 1
  /\ max_tokens_per_batch = 0
  /\ ChunkIdle
  /\ pack_pieces = <<>>
  /\ PackIdle
  /\ ApiIdle
  /\ RateIdle

vars == <<jobVars, trVars, fnVars>>

\* the job service with its worker and the recovery run
Init == JobInit /\ md_text = <<>> /\ TrIdle /\ FnIdle

Next ==
  \/ \E dt \in {"text_pdf", "scan"} : CreateJob(dt)
  \/ \E j \in JobIds : CancelJob(j)
  \/ \E j \in JobIds : WorkerStart(j)
  \/ WorkerStep
  \/ WorkerComplete
  \/ Crash
  \/ RecoverBegin
  \/ RecoverStep
  \/ RecoverEnd

Spec == Init /\ [][Next]_vars

\* the job service over time with the retention sweep
NextRetention ==
  \/ \E dt \in {"text_pdf", "scan"} : CreateJob(dt)
  \/ \E j \in JobIds : CancelJob(j)
  \/ \E j \in JobIds : WorkerStart(j)
  \/ WorkerStep
  \/ WorkerComplete
  \/ Crash
  \/ Tick
  \/ Recover
  \/ \E m \in 0..MaxAge : Cleanup(m)

SpecRetention == Init /\ [][NextRetention]_vars

\* the job service under the assumptions that the queue delivers every task
\* to the worker, that the stages of the pipeline terminate, and that a
\* recovery run follows whenever the table and the queue disagree
NextLive ==
  \/ \E dt \in {"text_pdf", "scan"} : CreateJob(dt)
  \/ \E j \in JobIds : CancelJob(j)
  \/ \E j \in JobIds : WorkerStart(j)
  \/ WorkerStep
  \/ WorkerComplete
  \/ Crash
  \/ Recover

\* when WorkerStep can be taken: the worker holds a job and process_pdf has
\* a step left
WorkerStepEnabled ==
  /\ wjob # 0
  /\ LET dt == IF wjob \in DOMAIN jobs THEN jobs[wjob].document_type ELSE "text_pdf"
     IN  wpc <= Len(process_pdf(dt))

\* when a recovery run has something to do: it would change the table or
\* the queue
RecoverEnabled ==
  /\ rpc = "idle"
  /\ LET st == [jobs |-> jobs, rq |-> rq, enq |-> enq, errors |-> {}]
     IN  RecoverRun(st, clock) # st

\* weak fairness of the worker's actions and of the recovery run; for
\* WorkerStep and Recover it is written out with their enabling conditions
SpecLive ==
  /\ Init
  /\ [][NextLive]_vars
  /\ \A j \in JobIds : WF_vars(WorkerStart(j))
  /\ WF_vars(WorkerComplete)
  /\ ([]<>(~WorkerStepEnabled) \/ []<><<WorkerStep>>_vars)
  /\ ([]<>(~RecoverEnabled) \/ []<><<Recover>>_vars)

\* the translation of one document, called again and again
InitTranslate ==
  /\ JobInit
  /\ md_text \in SeqsUpTo(Alphabet, MaxDocLen)
  /\ TrIdle
  /\ FnIdle

NextTranslate ==
  \/ \E key \in Keys \cup {"None"}, flush \in FlushChoices : TrStart(key, flush)
  \/ TrBlock
  \/ TrFinish
  \/ SaveOpen
  \/ SaveWrite
  \/ SaveFail
  \/ TrKill

SpecTranslate == InitTranslate /\ [][NextTranslate]_vars

\* the translation of one document without checkpoints, over documents
\* with both kinds of fence and two words
InitDocument ==
  /\ JobInit
  /\ md_text \in SeqsUpTo(MarkdownAlphabet, MaxDocLen)
  /\ TrIdle
  /\ FnIdle

NextDocument ==
  \/ \E flush \in FlushChoices : TrStart("None", flush)
  \/ TrBlock
  \/ TrFinish

SpecDocument == InitDocument /\ [][NextDocument]_vars

\* protect_tokens and restore_tokens on every text of the model
InitMarkdown ==
  /\ JobInit
  /\ md_text = <<>>
  /\ TrIdle
  /\ ptext \in SeqsUpTo(MdChars, MaxTextLen)
  /\ MdIdle
  /\ ctext = <<>>
  /\ max_input_tokens = 1
  /\ max_tokens_per_batch = 0
  /\ ChunkIdle
  /\ pack_pieces = <<>>
  /\ PackIdle
  /\ ApiIdle
  /\ RateIdle

NextMarkdown ==
  \/ ProtectTokens
  \/ RestoreTokens

SpecMarkdown == InitMarkdown /\ [][NextMarkdown]_vars

\* chunk_by_tokens and translate_texts_token_safe on every text and every
\* setting of the model
InitChunk ==
  /\ JobInit
  /\ md_text = <<>>
  /\ TrIdle
  /\ ptext = <<>>
  /\ MdIdle
  /\ ctext \in SeqsUpTo(Words, MaxWords)
  /\ max_input_tokens \in 1..MaxTokens
  /\ max_tokens_per_batch \in BatchBudgets
  /\ ChunkIdle
  /\ pack_pieces = <<>>
  /\ PackIdle
  /\ ApiIdle
  /\ RateIdle

NextChunk ==
  \/ ChunkByTokens
  \/ TranslateTextsTokenSafe

SpecChunk == InitChunk /\ [][NextChunk]_vars

\* pack_by_token_budget on every list of chunks and every budget of the model
InitPack ==
  /\ JobInit
  /\ md_text = <<>>
  /\ TrIdle
  /\ ptext = <<>>
  /\ MdIdle
  /\ ctext = <<>>
  /\ max_input_tokens = 1
  /\ max_tokens_per_batch \in PackBudgets
  /\ ChunkIdle
  /\ pack_pieces \in SeqsUpTo(SeqsUpTo(PieceWords, MaxPieceWords), MaxPieces)
  /\ PackIdle
  /\ ApiIdle
  /\ RateIdle

NextPack == PackByTokenBudget

SpecPack == InitPack /\ [][NextPack]_vars

\* the API with the worker: jobs are created, cancelled and retried while
\* the worker runs them
NextApi ==
  \/ \E dt \in {"text_pdf", "scan"} : CreateJob(dt)
  \/ \E j \in JobIds : CancelRequest(j)
  \/ \E j \in JobIds : RetryRequest(j)
  \/ \E j \in JobIds : WorkerStart(j)
  \/ WorkerStep
  \/ WorkerComplete

SpecApi == Init /\ [][NextApi]_vars

\* a rate limiter of every size of the model, called again and again
InitRate ==
  /\ JobInit
  /\ md_text = <<>>
  /\ TrIdle
  /\ ptext = <<>>
  /\ MdIdle
  /\ ctext = <<>>
  /\ max_input_tokens = 1
  /\ max_tokens_per_batch = 0
  /\ ChunkIdle
  /\ pack_pieces = <<>>
  /\ PackIdle
  /\ ApiIdle
  /\ requests = [k \in {} |-> <<>>]
  /\ max_requests \in MaxRequestsChoices
  /\ window_seconds \in WindowChoices
  /\ rl_time = 0
  /\ calls = <<>>

NextRate ==
  \/ \E identifier \in Identifiers : IsAllowed(identifier)
  \/ RateTick

SpecRate == InitRate /\ [][NextRate]_vars

(***************************************************************************)
(* Properties of job recovery (specification Spec).  While a run is in     *)
(* its loop, rseen[j] is what the run saw in the queue for job j, a job of *)
(* its query (status pending or processing), and rnew[j] is the number of  *)
(* tasks the run enqueued for j.  The run is about to return when the      *)
(* loop has no job left.                                                   *)
(***************************************************************************)
RecoveryReturns == rpc = "loop" /\ rlist = <<>>

\* the elements of a sequence
Elems(list) == {list[n] : n \in 1..Len(list)}

\* a step taken by recover_orphaned_jobs
RecoveryActs == recVars' # recVars

\* C1: when recovery returns, every job it found pending or processing with
\* no task in the queue has status pending, the initial stage, progress 0,
\* and exactly one new task enqueued for it.
C1_OrphanRequeued ==
  RecoveryReturns =>
    \A j \in JobIds :
      rseen[j] = "none" =>
        /\ j \in DOMAIN jobs
        /\ jobs[j].status = JobStatus.PENDING
        /\ jobs[j].stage = ProcessingStage.UPLOADED
        /\ jobs[j].progress = 0
        /\ rnew[j] = 1

\* C3: a job that is cancelled while the worker is processing it stays
\* cancelled: no step taken while the worker holds the job replaces the
\* status cancelled by another one.
C3_CancelledStays ==
  [][\A j \in DOMAIN jobs :
       (wjob = j /\ jobs[j].status = JobStatus.CANCELLED) =>
         (j \in DOMAIN jobs' /\ jobs'[j].status = JobStatus.CANCELLED)]_vars

\* C5: when recovery returns, every job it found pending or processing whose
\* task the queue reported finished has status completed.
C5_FinishedBecomesCompleted ==
  RecoveryReturns =>
    \A j \in JobIds :
      rseen[j] = "finished" =>
        j \in DOMAIN jobs /\ jobs[j].status = JobStatus.COMPLETED

\* a run has met a task that finished while its job was left failed by the
\* worker, and has marked the job completed
C5_Witness ==
  /\ RecoveryReturns
  /\ \E j \in DOMAIN jobs :
       /\ rseen[j] = "finished"
       /\ jobs[j].status = JobStatus.COMPLETED
       /\ jobs[j].error_message = ErrProcessing

\* C6: when recovery returns, every job it found pending or processing whose
\* task the queue reported failed has status failed and the non-empty
\* restart message as error_message, and the run enqueued no task for it.
C6_FailedBecomesFailed ==
  RecoveryReturns =>
    \A j \in JobIds :
      rseen[j] = "failed" =>
        /\ j \in DOMAIN jobs
        /\ jobs[j].status = JobStatus.FAILED
        /\ jobs[j].error_message = ErrRestart
        /\ jobs[j].error_message # ErrNone
        /\ rnew[j] = 0

\* a run has met the failed task of a job that was being processed when the
\* worker died, and has marked the job failed
C6_Witness ==
  /\ RecoveryReturns
  /\ \E j \in DOMAIN jobs :
       /\ rseen[j] = "failed"
       /\ jobs[j].status = JobStatus.FAILED
       /\ jobs[j].error_message = ErrRestart
       /\ jobs[j].stage # ProcessingStage.UPLOADED

C9_ErrorSkipsOneJob ==
  [][(RecoveryActs /\ rpc = "loop" /\ rlist # <<>>) =>
       LET j == Head(rlist)
       IN  /\ rpc' = "loop"
           /\ rlist' = Tail(rlist)
           /\ rseen'[j] # "unseen"
           /\ rseen'[j] = "error" =>
                /\ j \in rerrors'
                /\ jobs' = jobs /\ rq' = rq /\ enq' = enq
           /\ (rerrors # {} /\ j \in DOMAIN jobs) =>
                /\ rseen'[j] = "finished" =>
                     jobs'[j].status = JobStatus.COMPLETED
                /\ rseen'[j] = "failed" =>
                     /\ jobs'[j].status = JobStatus.FAILED
                     /\ jobs'[j].error_message = ErrRestart
                /\ rseen'[j] \in {"queued", "started", "canceled"} =>
                     jobs'[j] = jobs[j]]_vars

\* a run has logged an error for one job and has then reconciled the next
C9_Witness ==
  /\ RecoveryReturns
  /\ \E j, k \in DOMAIN jobs :
       /\ j < k
       /\ rseen[j] = "error"
       /\ j \in rerrors
       /\ jobs[j].status \in ActiveStatuses
       /\ rseen[k] \in {"finished", "failed"}
       /\ jobs[k].status \in {JobStatus.COMPLETED, JobStatus.FAILED}

(***************************************************************************)
(* Properties of recovery and retention as whole runs (specification       *)
(* SpecRetention).                                                         *)
(***************************************************************************)
\* the state recover_orphaned_jobs works on
RecState == [jobs |-> jobs, rq |-> rq, enq |-> enq, errors |-> {}]
\* the state cleanup_old_jobs works on
FsState == [jobs |-> jobs, rq |-> rq, uploads |-> uploads, outputs |-> outputs]

\* C7: recovery and retention cleanup are idempotent: in every state, a
\* second run of either right after the first changes nothing the first
\* left and logs no error (for recovery, also when the second run comes
\* later; for cleanup, with the same max_age_hours at the same time).
C7_Idempotent ==
  /\ LET r1 == RecoverRun(RecState, clock)
     IN  \A t \in clock..MaxClock :
           /\ RecoverRun(r1, t) = r1
           /\ RecoverRun(r1, t).errors = {}
  /\ \A m \in 0..MaxAge :
       LET c1 == CleanupRun(FsState, clock, m)
       IN  CleanupRun(c1, clock, m) = c1

\* a recovery run has already failed an orphan, and in the state reached
\* since a run of recovery and a run of cleanup each find work to do: the
\* first run of each changes the state, the second must not
C7_Witness ==
  /\ \E j \in DOMAIN jobs : jobs[j].error_message = ErrRequeue
  /\ RecoverRun(RecState, clock) # RecState
  /\ \E m \in 0..MaxAge : CleanupRun(FsState, clock, m) # FsState

TranslateAll(text) ==
  LET parts == FenceSplit(text)
  IN  Concat([n \in 1..Len(parts) |-> BlockOutput(parts, n - 1)])

\* a call is under way or has ended, and it resumed from a checkpoint
Resumed == tpc \in {"loop", "open", "write", "done", "raised"} /\ start_i > 0

\* C2: a call that resumes from a checkpoint with done = k for the same
\* md_text and key sends no text of the blocks before k to the translation
\* engine, and the document it returns is the one an uninterrupted run
\* returns.
C2_ResumeSkipsDone ==
  Resumed =>
    /\ \A n \in 1..Len(sent) : sent[n].block >= start_i
    /\ tpc = "done" => tresult = TranslateAll(md_text)

\* a call has resumed in the middle of a document, has sent the engine text
\* of a later block and has returned
C2_Witness ==
  /\ tpc = "done"
  /\ start_i > 0
  /\ start_i < Len(FenceSplit(md_text))
  /\ sent # <<>>
  /\ tresult # md_text

\* C4: saving a checkpoint is atomic: while a save that replaces a complete
\* checkpoint is under way, a load of the file yields the complete previous
\* checkpoint or the complete new one, never an empty or partial file.
C4_AtomicSave ==
  (tpc \in {"open", "write"} /\ fprev.exists /\ JsonValid(fprev.data)) =>
    \/ ckfile = fprev
    \/ /\ ckfile.exists
       /\ JsonValid(ckfile.data)
       /\ JsonLoads(ckfile.data) = checkpoint

(***************************************************************************)
(* Properties of the pipeline run by the worker (specification Spec).      *)
(***************************************************************************)
\* the document type the worker was given for the job it holds
WorkerDocType ==
  IF wjob \in DOMAIN jobs THEN jobs[wjob].document_type ELSE "text_pdf"

\* the external stages process_pdf has invoked so far for the job the worker
\* holds, in order
RECURSIVE ToolsOf(_)
ToolsOf(steps) ==
  IF steps = <<>> THEN <<>>
  ELSE IF Head(steps).kind = "tool" THEN <<Head(steps)>> \o ToolsOf(Tail(steps))
  ELSE ToolsOf(Tail(steps))

Invoked ==
  IF wjob = 0 THEN <<>>
  ELSE ToolsOf(SubSeq(process_pdf(WorkerDocType), 1, wpc - 1))

\* C17: when a stage of the pipeline fails, the worker leaves the job at once
\* (no later stage is invoked), the job is failed with a recorded
\* error_message and its stage is the one it had; afterwards no step of the
\* worker or of the API changes the row, takes the job up again or enqueues a
\* task for it.
C17_StageFailureAborts ==
  [][/\ \A j \in DOMAIN jobs :
          (/\ wjob = j
           /\ wpc <= Len(process_pdf(WorkerDocType))
           /\ wjob' = 0
           /\ rq'[j] = "finished") =>
            /\ jobs'[j].status = JobStatus.FAILED
            /\ jobs'[j].error_message # ErrNone
            /\ jobs'[j].stage = jobs[j].stage
            /\ enq'[j] = enq[j]
     /\ \A j \in DOMAIN jobs :
          (/\ jobs[j].status = JobStatus.FAILED
           /\ jobs[j].error_message = ErrProcessing
           /\ ~RecoveryActs) =>
            /\ j \in DOMAIN jobs'
            /\ jobs'[j] = jobs[j]
            /\ enq'[j] = enq[j]
            /\ wjob' # j]_vars

\* the conversion stage of a job has failed: the job is failed in the
\* conversion stage, before any later stage, and the worker has moved on to
\* another job
C17_Witness ==
  \E j, k \in DOMAIN jobs :
    /\ j # k
    /\ jobs[j].status = JobStatus.FAILED
    /\ jobs[j].error_message = ErrProcessing
    /\ jobs[j].stage = ProcessingStage.DOCLING_CONVERSION
    /\ rq[j] = "finished"
    /\ wjob = k

\* C18: once the worker has finished a job, with the pipeline succeeded or
\* failed, the job's working directory does not exist.
C18_WorkDirRemoved ==
  \A j \in DOMAIN jobs :
    (/\ rq[j] = "finished"
     /\ wjob # j
     /\ jobs[j].status \in {JobStatus.COMPLETED, JobStatus.FAILED}) =>
      j \notin work

\* C19: process_pdf invokes the OCR tool exactly when the document type is
\* text_image_pdf or scan (then once, before the conversion); the conversion
\* gets the original input path for text_pdf and the OCR output otherwise.
C19_OcrOnlyWhenNeeded ==
  /\ \A dt \in DocumentType :
       LET tools == ToolsOf(process_pdf(dt))
           ocr == {n \in 1..Len(tools) : tools[n].name = "ocr"}
           conv == {n \in 1..Len(tools) : tools[n].name = "docling"}
       IN  /\ Cardinality(ocr) = (IF dt \in {"text_image_pdf", "scan"} THEN 1 ELSE 0)
           /\ Cardinality(conv) = 1
           /\ \A n \in ocr, m \in conv : n < m
           /\ \A m \in conv :
                tools[m].path = (IF dt = "text_pdf" THEN "input_path" ELSE "ocr_output")
  /\ \A n \in 1..Len(Invoked) :
       /\ Invoked[n].name = "ocr" => WorkerDocType \in {"text_image_pdf", "scan"}
       /\ Invoked[n].name = "docling" =>
            IF WorkerDocType = "text_pdf"
              THEN Invoked[n].path = "input_path" /\ n = 1
              ELSE Invoked[n].path = "ocr_output" /\ n = 2 /\ Invoked[1].name = "ocr"

\* the worker has run OCR and then the conversion on the OCR output for a
\* scan
C19_Witness ==
  /\ wjob \in DOMAIN jobs
  /\ jobs[wjob].document_type = "scan"
  /\ Len(Invoked) >= 2
  /\ Invoked[1].name = "ocr"
  /\ Invoked[2].name = "docling"
  /\ Invoked[2].path = "ocr_output"

\* C20: the OCR stage is never recorded on a text_pdf job.
C20_NoOcrStageForTextPdf ==
  \A j \in DOMAIN jobs :
    jobs[j].document_type = "text_pdf" =>
      jobs[j].stage # ProcessingStage.OCR_PROCESSING

\* the order of the stages of a job
StageOrder ==
  <<ProcessingStage.UPLOADED, ProcessingStage.OCR_PROCESSING,
    ProcessingStage.DOCLING_CONVERSION, ProcessingStage.TRANSLATION,
    ProcessingStage.PDF_GENERATION, ProcessingStage.COMPLETED>>

StageRank(stage) == CHOOSE n \in 1..Len(StageOrder) : StageOrder[n] = stage

\* the external stage a stage value stands for ("none": uploaded, completed)
StageTool(stage) ==
  CASE stage = ProcessingStage.OCR_PROCESSING -> "ocr"
    [] stage = ProcessingStage.DOCLING_CONVERSION -> "docling"
    [] stage = ProcessingStage.TRANSLATION -> "translate"
    [] stage = ProcessingStage.PDF_GENERATION -> "pandoc"
    [] OTHER -> "none"

\* whether the stage `name` of the pipeline `steps` is running or has run
\* when the worker stands before step pc: the tool has been invoked, or it
\* is the next tool the pipeline invokes
RunsOrRan(steps, pc, name) ==
  LET done == ToolsOf(SubSeq(steps, 1, pc - 1))
      rest == ToolsOf(SubSeq(steps, pc, Len(steps)))
  IN  \/ \E n \in 1..Len(done) : done[n].name = name
      \/ rest # <<>> /\ rest[1].name = name

\* C21: while the worker processes a job, every change of the job's stage
\* moves it forward in the order uploaded, ocr, conversion, translation,
\* rendering, completed, and a stage value is recorded only while or after
\* that stage of the pipeline runs (completed: after every stage has run).
C21_StageForwardOnly ==
  [][\A j \in DOMAIN jobs :
       (/\ wjob = j
        /\ wjob' \in {j, 0}
        /\ j \in DOMAIN jobs'
        /\ jobs'[j].stage # jobs[j].stage) =>
         LET steps == process_pdf(jobs[j].document_type)
             new == jobs'[j].stage
         IN  /\ StageRank(new) > StageRank(jobs[j].stage)
             /\ StageTool(new) # "none" => RunsOrRan(steps, wpc + 1, StageTool(new))
             /\ new = ProcessingStage.COMPLETED =>
                  ToolsOf(SubSeq(steps, wpc + 1, Len(steps))) = <<>>]_vars

\* the values the translation stage reports for a document of up to
\* MaxDocLen + 1 blocks lie in 55..90 and ascend with the blocks
TranslationProgressAscends ==
  \A total \in 1..(MaxDocLen + 1) : \A i \in 0..(total - 1) :
    LET p == translation_progress(block_progress(i, total))
    IN  /\ p \in 55..90
        /\ \A k \in 0..i : translation_progress(block_progress(k, total)) <= p

\* C22: the progress stored on a job is a percentage in 0..100 and no step
\* of the worker, the API or the recovery run stores a smaller value than
\* the one stored before; the translation's own percentages map into 55..90
\* in ascending order.
C22_ProgressMonotone ==
  [][/\ \A j \in DOMAIN jobs' :
          /\ jobs'[j].progress \in 0..100
          /\ j \in DOMAIN jobs => jobs'[j].progress >= jobs[j].progress
     /\ TranslationProgressAscends]_vars

\* the worker has reported the end of the translation of a job whose
\* progress went through the values of the earlier stages
C22_Witness ==
  \E j \in DOMAIN jobs :
    /\ wjob = j
    /\ jobs[j].stage = ProcessingStage.TRANSLATION
    /\ jobs[j].progress = translation_progress(100)
    /\ wpc > 1

(***************************************************************************)
(* Properties of failures and of the checkpoint file (specification        *)
(* SpecTranslate).                                                         *)
(***************************************************************************)
\* the number of blocks of the document
TotalParts == Len(FenceSplit(md_text))

\* the file holds a complete checkpoint stored under key
HoldsCheckpoint(file, key) ==
  file.exists /\ JsonValid(file.data) /\ JsonLoads(file.data).key = key

\* C12: when the engine raises on a block the call ends without a result and
\* without touching the checkpoint file; a complete checkpoint of the call's
\* key on disk covers only blocks before the failing one, with their
\* outputs; nothing is written until the next call, and a next call with the
\* same key starts from what that file holds.
C12_EngineFailureAborts ==
  [][/\ (tpc = "loop" /\ tpc' = "raised") =>
          /\ ckfile' = ckfile
          /\ tresult' = <<>>
          /\ HoldsCheckpoint(ckfile, tkey) =>
               LET ck == JsonLoads(ckfile.data)
               IN  /\ ck.done <= ti
                   /\ ck.parts = [n \in 1..ck.done |->
                                    BlockOutput(FenceSplit(md_text), n - 1)]
     /\ tpc = "raised" =>
          /\ ckfile' = ckfile
          /\ (tpc' = "loop" /\ tkey' = tkey /\ HoldsCheckpoint(ckfile, tkey)) =>
               LET ck == JsonLoads(ckfile.data)
               IN  /\ start_i' = ck.done
                   /\ ti' = ck.done
                   /\ out_parts' = ck.parts]_vars

\* the engine has raised in the middle of a document after a checkpoint of
\* the earlier blocks was saved, and the file still holds that checkpoint
C12_Witness ==
  /\ tpc = "raised"
  /\ sent # <<>>
  /\ HoldsCheckpoint(ckfile, tkey)
  /\ JsonLoads(ckfile.data).done > 0
  /\ JsonLoads(ckfile.data).done < TotalParts

\* C13: a save that fails is fatal: the call goes on after a save (to the
\* next block, or to its return) only when the file holds the checkpoint
\* that was to be saved.
C13_SaveFailureFatal ==
  [][(tpc \in {"open", "write"} /\ tpc' \in {"loop", "done"}) =>
       /\ HoldsCheckpoint(ckfile', checkpoint.key)
       /\ JsonLoads(ckfile'.data) = checkpoint]_vars

\* C14: a checkpoint that has been saved is what a load with its key
\* returns: for the checkpoint of every save, loading the file that holds
\* its serialization gives it back, and so does loading the file a
\* completed save has left.
C14_RoundTrip ==
  [][/\ tpc \in {"open", "write"} =>
          load_checkpoint([exists |-> TRUE, data |-> JsonDumps(checkpoint)],
                          checkpoint.key) = checkpoint
     /\ (tpc = "write" /\ tpc' \in {"loop", "done"} /\ ckfile' # ckfile) =>
          load_checkpoint(ckfile', checkpoint.key) = checkpoint]_vars

\* a save of a checkpoint with parts has completed and the call has gone on
C14_Witness ==
  /\ tpc = "loop"
  /\ ti > start_i
  /\ HoldsCheckpoint(ckfile, tkey)
  /\ JsonLoads(ckfile.data) = checkpoint
  /\ checkpoint.done > 0
  /\ checkpoint.parts # <<>>
  /\ \E n \in 1..Len(checkpoint.parts) : checkpoint.parts[n] # <<>>

\* C15: _load_checkpoint returns the zero checkpoint of the key whenever the
\* file is missing, does not parse or was stored under another key, and the
\* stored checkpoint otherwise; what it returns always carries the key asked
\* for.
C15_LoadZeroOnMiss ==
  \A k \in Keys :
    LET r == load_checkpoint(ckfile, k)
    IN  /\ r.key = k
        /\ IF HoldsCheckpoint(ckfile, k)
             THEN r = JsonLoads(ckfile.data)
             ELSE r = ZeroCheckpoint(k)

\* a call has started from block 0 with one key although the file holds a
\* complete checkpoint with blocks done under another key
C15_Witness ==
  /\ tpc = "loop"
  /\ tkey \in Keys
  /\ start_i = 0
  /\ out_parts = <<>>
  /\ ckfile.exists
  /\ JsonValid(ckfile.data)
  /\ JsonLoads(ckfile.data).key \in Keys \ {tkey}
  /\ JsonLoads(ckfile.data).done > 0

\* C16: with a key, a save begins after block i exactly when i + 1 is a
\* multiple of flush_every, and once more after the last block with done the
\* number of blocks; without a key the file is never written; the file is
\* written by saves only.
C16_FlushSchedule ==
  [][/\ (tpc = "loop" /\ ti < TotalParts /\ tpc' \in {"loop", "open"}) =>
          /\ (tpc' = "open") = (tkey # "None" /\ (ti + 1) % flush_every = 0)
          /\ tpc' = "open" =>
               /\ checkpoint' = [key |-> tkey, done |-> ti + 1, parts |-> out_parts']
               /\ ~tfinal'
     /\ (tpc = "loop" /\ ti >= TotalParts) =>
          IF tkey # "None"
            THEN /\ tpc' \in {"open", "idle"}
                 /\ tpc' = "open" =>
                      /\ tfinal'
                      /\ checkpoint' = [key |-> tkey, done |-> TotalParts,
                                        parts |-> out_parts]
            ELSE tpc' \in {"done", "idle"}
     /\ ckfile' # ckfile => (tpc \in {"open", "write"} /\ tkey # "None")]_vars

\* the final save of a document of three blocks has begun after the periodic
\* save of flush_every = 2 left a checkpoint with done = 2
C16_Witness ==
  /\ tpc = "open"
  /\ tfinal
  /\ flush_every = 2
  /\ TotalParts = 3
  /\ HoldsCheckpoint(ckfile, tkey)
  /\ JsonLoads(ckfile.data).done = 2
  /\ checkpoint.done = 3

(***************************************************************************)
(* Progress of jobs (specification SpecLive).                              *)
(***************************************************************************)
\* C11: no job is lost: every job that is pending or processing eventually
\* is in a final status (or its row is gone), given that the queue delivers
\* tasks, the stages terminate and recovery runs after a crash.
C11_NoJobLost ==
  \A j \in JobIds :
    (j \in DOMAIN jobs /\ jobs[j].status \in ActiveStatuses)
      ~> (j \notin DOMAIN jobs \/ jobs[j].status \in TerminalStatuses)

\* two jobs were pending or processing when the worker died and the queue
\* was lost (one in the pipeline, one waiting); recovery has brought both to
\* a final status
C11_Witness ==
  /\ wjob = 0
  /\ \E j, k \in DOMAIN jobs :
       /\ j # k
       /\ jobs[j].error_message = ErrRequeue
       /\ jobs[j].stage # ProcessingStage.UPLOADED
       /\ jobs[k].error_message = ErrRequeue
       /\ jobs[k].stage = ProcessingStage.UPLOADED
       /\ jobs[j].status \in TerminalStatuses
       /\ jobs[k].status \in TerminalStatuses

(***************************************************************************)
(* Properties of the translation of a document, block by block and         *)
(* paragraph by paragraph (specification SpecDocument).  The engine of the *)
(* model translates word by word, so a text and its translation have the   *)
(* same length.                                                            *)
(***************************************************************************)
\* the blocks of md_text, prose and fenced in turn
Parts == FenceSplit(md_text)

\* where block n (1-based) starts in the document, counted in tokens before
Offset(n) == Len(Concat(SubSeq(Parts, 1, n - 1)))

\* whether the text `piece` stands in `text` as it is
Within(piece, text) ==
  \E from \in 1..(Len(text) + 1) :
    /\ from + Len(piece) - 1 <= Len(text)
    /\ SubSeq(text, from, from + Len(piece) - 1) = piece

\* C23: every fenced block is appended to the output as it is and stands in
\* the returned document where it stands in the input; every text passed to
\* the engine comes from a prose block, and the prose blocks are translated.
C23_FencesVerbatim ==
  /\ tpc = "loop" =>
       \A n \in 1..Len(out_parts) : (n - 1) % 2 = 1 => out_parts[n] = Parts[n]
  /\ \A k \in 1..Len(sent) :
       /\ sent[k].block % 2 = 0
       /\ Within(sent[k].text, Parts[sent[k].block + 1])
  /\ tpc = "done" =>
       \A n \in 1..Len(Parts) :
         LET got == SubSeq(tresult, Offset(n) + 1, Offset(n) + Len(Parts[n]))
         IN  IF (n - 1) % 2 = 1 THEN got = Parts[n]
             ELSE got = [pos \in 1..Len(Parts[n]) |-> TrWord(Parts[n][pos])]

\* a document with prose, a fenced block holding a word, and prose again has
\* been translated: the prose changed and the fence did not
C23_Witness ==
  /\ tpc = "done"
  /\ Len(Parts) = 3
  /\ Parts[1] # <<>>
  /\ \E pos \in 1..Len(Parts[2]) : Parts[2][pos] = "a"
  /\ tresult # md_text
  /\ SubSeq(tresult, Offset(2) + 1, Offset(2) + Len(Parts[2])) = Parts[2]

\* the words of a text in order, without its blank lines
NonBlank(text) == SelectSeq(text, LAMBDA t : t # "nn")

\* the number of paragraphs of a text that hold a word
NonBlankParagraphs(text) ==
  Cardinality({pos \in 1..Len(text) :
                 text[pos] # "nn" /\ (pos = 1 \/ text[pos - 1] = "nn")})

\* the texts the call has sent to the engine for block i, in order
SentFor(i) == SelectSeq(sent, LAMBDA m : m.block = i)

\* C24: in the output of a prose block every blank line stands where it
\* stood, every other token is the translation of the source token at its
\* place, and the engine was given each non-blank paragraph once, in order.
C24_ParagraphOrder ==
  tpc = "loop" =>
    \A n \in 1..Len(out_parts) :
      (n - 1) % 2 = 0 =>
        LET part == Parts[n]
            given == SentFor(n - 1)
        IN  /\ Len(out_parts[n]) = Len(part)
            /\ \A pos \in 1..Len(part) :
                 out_parts[n][pos] = (IF part[pos] = "nn" THEN "nn"
                                      ELSE TrWord(part[pos]))
            /\ Len(given) = NonBlankParagraphs(part)
            /\ Concat([k \in 1..Len(given) |-> given[k].text]) = NonBlank(part)

\* a prose block of two different paragraphs with a blank line between them
\* has been translated
C24_Witness ==
  /\ tpc = "loop"
  /\ Len(out_parts) >= 1
  /\ Parts[1] = <<"a", "nn", "b">>
  /\ out_parts[1] = <<"A", "nn", "B">>
  /\ Len(SentFor(0)) = 2

(***************************************************************************)
(* Properties of protect_tokens and restore_tokens (specification          *)
(* SpecMarkdown).  No text of the model holds a placeholder: "TOKEN_n" is  *)
(* no character of MdChars.                                                *)
(***************************************************************************)
\* the numbers of the placeholders of a text, from left to right
RECURSIVE PlaceholderIdsFrom(_, _)
PlaceholderIdsFrom(text, pos) ==
  IF pos > Len(text) THEN <<>>
  ELSE IF PlaceholderAt(text, pos)
    THEN <<TokenId(text[pos + 3])>> \o PlaceholderIdsFrom(text, pos + 7)
    ELSE PlaceholderIdsFrom(text, pos + 1)

PlaceholderIds(text) == PlaceholderIdsFrom(text, 1)

\* C26: restore_tokens applied to the text and the stash protect_tokens
\* returned for a text gives that text back.
C26_MaskRestoreRoundTrip ==
  ppc = "restored" => restored = ptext

\* C27: the stash holds the inline-code spans of the text from left to
\* right, then the link and image spans of the masked text from left to
\* right, span n behind the placeholder of number n; no number is given
\* twice; and restore_tokens replaces each of the placeholders once, so that
\* none is left in its result.
C27_PlaceholderNumbering ==
  /\ ppc \in {"protected", "restored"} =>
       LET first == SubStash("INLINE_CODE_RE", ptext, 1, <<>>, <<>>)
           k == Len(first.stash)
       IN  /\ Len(stash) >= k
           /\ SubSeq(stash, 1, k) = first.stash
           /\ PlaceholderIds(first.text) = [n \in 1..k |-> n - 1]
           /\ \A n \in 1..Len(stash) :
                n > k => /\ LinkOrImgEnd(stash[n], 1) = Len(stash[n])
                         /\ Within(stash[n], first.text)
           /\ \A a, b \in 1..Len(PlaceholderIds(masked)) :
                a # b => PlaceholderIds(masked)[a] # PlaceholderIds(masked)[b]
  /\ ppc = "restored" =>
       /\ Len(PlaceholderIds(masked)) = Len(stash)
       /\ PlaceholderIds(restored) = <<>>

(***************************************************************************)
(* Properties of chunk_by_tokens and translate_texts_token_safe            *)
(* (specification SpecChunk).                                              *)
(***************************************************************************)
\* chunk_by_tokens or translate_texts_token_safe has returned
Chunked == cpc \in {"chunked", "translated"}

\* C25: the translation of a text is the translations of its chunks joined
\* in the order in which chunk_by_tokens returned the chunks, whatever the
\* token counts of the chunks and the batch budget.
C25_ChunkOrderKept ==
  cpc = "translated" =>
    results = <<Join([k \in 1..Len(chunks) |-> translate_batch(chunks[k])])>>

\* C28: every chunk has at most max_input_tokens tokens, unless it is one
\* word that has more by itself.
C28_ChunkWithinCeiling ==
  Chunked =>
    \A k \in 1..Len(chunks) :
      \/ count_tokens(chunks[k]) <= max_input_tokens
      \/ Len(chunks[k]) = 1

\* a text has been cut into a chunk of two words that fills the ceiling and
\* a chunk of one word that exceeds it
C28_Witness ==
  /\ cpc = "chunked"
  /\ \E k \in 1..Len(chunks) :
       Len(chunks[k]) = 2 /\ count_tokens(chunks[k]) = max_input_tokens
  /\ \E k \in 1..Len(chunks) :
       Len(chunks[k]) = 1 /\ count_tokens(chunks[k]) > max_input_tokens

\* C29: the chunks joined by single spaces, in the order returned, are the
\* text.
C29_ChunksRebuildText ==
  Chunked => Join(chunks) = ctext

\* C30: the empty text has no chunk, and no chunk of any text is empty.
C30_NoEmptyChunk ==
  Chunked =>
    /\ ctext = <<>> => chunks = <<>>
    /\ \A k \in 1..Len(chunks) : chunks[k] # <<>>

(***************************************************************************)
(* Properties of pack_by_token_budget (specification SpecPack).            *)
(***************************************************************************)
\* the sum of the token counts of the chunks of a batch
RECURSIVE BatchTokens(_)
BatchTokens(batch) ==
  IF batch = <<>> THEN 0 ELSE count_tokens(Head(batch)) + BatchTokens(Tail(batch))

\* C31: for a budget above zero, every batch pack_by_token_budget returns has
\* at least one chunk, and its chunks together have at most budget tokens
\* unless it is one chunk that has more by itself.
C31_BatchWithinBudget ==
  (bpc = "packed" /\ max_tokens_per_batch > 0) =>
    \A b \in 1..Len(packed) :
      /\ packed[b] # <<>>
      /\ \/ BatchTokens(packed[b]) <= max_tokens_per_batch
         \/ Len(packed[b]) = 1 /\ count_tokens(packed[b][1]) > max_tokens_per_batch

\* a list has been packed into a batch of two chunks within the budget and
\* a batch of one chunk that is over the budget by itself
C31_Witness ==
  /\ bpc = "packed"
  /\ \E b \in 1..Len(packed) :
       Len(packed[b]) = 2 /\ BatchTokens(packed[b]) <= max_tokens_per_batch
  /\ \E b \in 1..Len(packed) :
       Len(packed[b]) = 1 /\ count_tokens(packed[b][1]) > max_tokens_per_batch

\* how many times the chunk x occurs in a list of chunks
Occurrences(list, x) == Cardinality({k \in 1..Len(list) : list[k] = x})

\* C32: for a budget above zero, the batches pack_by_token_budget returns
\* hold the chunks of its input, each as often as the input holds it and
\* whole; no chunk is dropped, cut or put into two batches.
C32_BatchesPartitionInput ==
  (bpc = "packed" /\ max_tokens_per_batch > 0) =>
    /\ Len(Concat(packed)) = Len(pack_pieces)
    /\ \A k \in 1..Len(pack_pieces) :
         Occurrences(Concat(packed), pack_pieces[k])
           = Occurrences(pack_pieces, pack_pieces[k])

\* a list that holds one chunk twice and a chunk over the budget has been
\* packed into more than one batch
C32_Witness ==
  /\ bpc = "packed"
  /\ Len(packed) > 1
  /\ \E k \in 1..Len(pack_pieces) :
       /\ Occurrences(pack_pieces, pack_pieces[k]) = 2
       /\ count_tokens(pack_pieces[k]) <= max_tokens_per_batch
  /\ \E k \in 1..Len(pack_pieces) :
       count_tokens(pack_pieces[k]) > max_tokens_per_batch

(***************************************************************************)
(* Properties of the cancel and retry endpoints (specification SpecApi).   *)
(***************************************************************************)
\* what a request may change besides the clock and the files: the table and
\* the queue
ApiState == <<jobs, rq, enq>>

\* C33: a cancel request makes a job cancelled exactly when the job exists
\* with status pending or processing; for a job that is completed, failed
\* or cancelled it is answered 400 and for an unknown id 404, and in both
\* cases the table and the queue stay as they were.
C33_CancelOnlyActive ==
  [][\A j \in JobIds :
       CancelRequest(j) =>
         LET known == j \in DOMAIN jobs
             active == known /\ jobs[j].status \in {"pending", "processing"}
             becomes_cancelled ==
               /\ j \in DOMAIN jobs'
               /\ jobs'[j].status = "cancelled"
               /\ ~(known /\ jobs[j].status = "cancelled")
         IN  /\ becomes_cancelled <=> active
             /\ (known /\ ~active) => (resp'.code = 400 /\ ApiState' = ApiState)
             /\ ~known => (resp'.code = 404 /\ ApiState' = ApiState)]_vars

\* a job was cancelled while it was pending or processing, which cancelled
\* its task, and a second cancel request for it has been answered 400
C33_Witness ==
  /\ resp = [op |-> "cancel", id |-> 1, code |-> 400]
  /\ 1 \in DOMAIN jobs
  /\ jobs[1].status = "cancelled"
  /\ rq[1] = "canceled"

\* C34: a retry request for a job that is failed or cancelled makes it
\* pending with progress 0, the initial stage and no error message, and
\* enqueues one task for it; for a job in another status it changes neither
\* the table nor the queue.
C34_RetryRequeues ==
  [][\A j \in JobIds :
       (RetryRequest(j) /\ j \in DOMAIN jobs) =>
         IF jobs[j].status \in {"failed", "cancelled"}
           THEN /\ jobs'[j].status = "pending"
                /\ jobs'[j].progress = 0
                /\ jobs'[j].stage = NewJob(jobs[j].document_type, clock).stage
                /\ jobs'[j].error_message = ErrNone
                /\ enq'[j] = enq[j] + 1
                /\ rq'[j] = "queued"
           ELSE ApiState' = ApiState]_vars

(***************************************************************************)
(* Properties of the rate limiter (specification SpecRate).  A window of   *)
(* window_seconds is the times after some s up to s + window_seconds; a    *)
(* call at time t lies within the last window_seconds of a call at time u  *)
(* when u - window_seconds < t.                                            *)
(***************************************************************************)
\* the calls before call k of the same identifier that were allowed within
\* the last window_seconds of call k
RecentAllowed(k) ==
  {i \in 1..(k - 1) :
     /\ calls[i].identifier = calls[k].identifier
     /\ calls[i].allowed
     /\ calls[i].time > calls[k].time - window_seconds}

\* the allowed calls of an identifier in the window that starts after s
AllowedInWindow(identifier, s) ==
  {i \in 1..Len(calls) :
     /\ calls[i].identifier = identifier
     /\ calls[i].allowed
     /\ s < calls[i].time
     /\ calls[i].time <= s + window_seconds}

\* C35: no window of window_seconds holds more than max_requests allowed
\* calls of one identifier, and a call is allowed exactly when fewer than
\* max_requests earlier allowed calls of its identifier lie within the last
\* window_seconds; calls of other identifiers and calls older than the
\* window do not count.
C35_RateLimited ==
  /\ \A identifier \in Identifiers : \A s \in (0 - window_seconds)..MaxTime :
       Cardinality(AllowedInWindow(identifier, s)) <= max_requests
  /\ \A k \in 1..Len(calls) :
       calls[k].allowed <=> Cardinality(RecentAllowed(k)) < max_requests

\* an identifier was allowed, then refused within the window while the
\* other identifier was allowed, and allowed again once the window had
\* passed
C35_Witness ==
  /\ Len(calls) >= 4
  /\ calls[1].identifier = calls[2].identifier
  /\ calls[1].allowed /\ ~calls[2].allowed
  /\ calls[3].identifier # calls[1].identifier /\ calls[3].allowed
  /\ calls[3].time = calls[1].time
  /\ calls[4].identifier = calls[1].identifier /\ calls[4].allowed
  /\ calls[4].time = calls[1].time + window_seconds

(***************************************************************************)
(* Properties of the output files (specification Spec).                    *)
(***************************************************************************)
\* the worker has returned from job j
WorkerReturned(j) == wjob # j

\* C38: once the worker has returned, every path in the output_files of a
\* completed job is a file that exists under the job's output directory.
C38_OutputFilesExist ==
  \A j \in DOMAIN jobs :
    (jobs[j].status = "completed" /\ WorkerReturned(j)) =>
      jobs[j].output_files \subseteq files[j]

\* C36: a job whose status is completed has stage completed and progress
\* 100, whoever wrote the status: the worker, the recovery service or the
\* API.
C36_CompletedIsWhole ==
  \A j \in DOMAIN jobs :
    jobs[j].status = "completed" =>
      (jobs[j].stage = "completed" /\ jobs[j].progress = 100)

\* the worker has completed one job, and recovery has marked completed a
\* job that the worker had left failed before its last stage
C36_Witness ==
  \E j, k \in DOMAIN jobs :
    /\ jobs[j].status = "completed"
    /\ jobs[j].output_files # {}
    /\ jobs[k].status = "completed"
    /\ jobs[k].error_message = ErrProcessing
    /\ FinalPdf \notin files[k]

(***************************************************************************)
(* Properties of a recovery run that overlaps a worker run (specification  *)
(* Spec).  The worker records a failed pipeline run with the message       *)
(* ErrProcessing, and no later run of the job clears it.                   *)
(***************************************************************************)
\* the pipeline run of job j ended in failure
RunFailed(j) == j \in DOMAIN jobs /\ jobs[j].error_message = ErrProcessing

\* C39: a job whose pipeline run ended in failure is never recorded as
\* completed, also when a recovery run that read the job while it was
\* pending or processing goes on after the worker has recorded the failure
\* and returned.
C39_FailedNeverCompleted ==
  \A j \in JobIds : RunFailed(j) => jobs[j].status # "completed"

(***************************************************************************)
(* Properties of the checkpoints a call writes (specification              *)
(* SpecTranslate).  The checkpoint a call writes is the dict it passes to  *)
(* _save_checkpoint; while the call is in its loop, `checkpoint` is the    *)
(* one it loaded or, once its done is beyond start_i, the last it wrote.   *)
(***************************************************************************)
\* the call is passing `checkpoint` to _save_checkpoint
Writing == tpc \in {"open", "write"}

\* the file holds a complete checkpoint, whatever its key
HoldsAnyCheckpoint == ckfile.exists /\ JsonValid(ckfile.data)

\* C37: every checkpoint a call writes has as many parts as its done says,
\* and no more than the document has blocks; the same holds for every
\* complete checkpoint in the file; and the done of the checkpoints one call
\* writes never decreases.  This holds across calls, engine failures, kills
\* and resumptions on the same document.
C37_CheckpointConsistent ==
  /\ [](Writing =>
          /\ Len(checkpoint.parts) = checkpoint.done
          /\ checkpoint.done <= TotalParts)
  /\ [](HoldsAnyCheckpoint =>
          /\ Len(JsonLoads(ckfile.data).parts) = JsonLoads(ckfile.data).done
          /\ JsonLoads(ckfile.data).done <= TotalParts)
  /\ [][(tpc = "loop" /\ tpc' = "open" /\ checkpoint.done > start_i) =>
          checkpoint'.done >= checkpoint.done]_vars

\* a call that resumed from a checkpoint of an earlier call has written a
\* checkpoint and is writing its next one, which covers more blocks
C37_Witness ==
  /\ tpc = "open"
  /\ start_i > 0
  /\ HoldsCheckpoint(ckfile, tkey)
  /\ JsonLoads(ckfile.data).done > start_i
  /\ checkpoint.done > JsonLoads(ckfile.data).done

====
